---- MODULE Spec2Model ----
(***************************************************************************)
(* A model of adafruit_ble: the advertising-data codec (decode_data,       *)
(* compute_length, encode_data), the Advertisement field accessors, the    *)
(* service-UUID list of an advertisement, the Characteristic /             *)
(* ComplexCharacteristic binding to a Service, and the chunked stream      *)
(* write.  Byte strings are sequences of naturals 0..255; a Python dict is *)
(* a sequence of entries in insertion order.                               *)
(***************************************************************************)
EXTENDS Integers, Sequences, FiniteSets, TLC

VARIABLES
    \* ---- codec: one decode_data / encode_data run
    data,        \* the input byte string
    key_size,    \* struct.calcsize(key_encoding): 1 for "B", 2 for "<H"
    dec,         \* result of decode_data(data): [raised, dict]
    enc,         \* result of encode_data(dec.dict): [raised, bytes]
    clen,        \* result of compute_length(dec.dict)
    cpc,         \* "idle" | "start" | "decoded" | "encoded"
    \* ---- one Advertisement object
    adv,         \* its attributes, the outcome of the last operation on it
    adv_steps,   \* number of operations performed on it
    \* ---- one Service object and its declared characteristics
    the_service, \* the Service instance, its _bleio.Service and the radio's call logs
    bind_op,     \* the last attribute access: what it was and how it ended
    bind_steps,  \* number of attribute accesses performed
    \* ---- one chunked write(buf)
    stream,      \* the buffer, the loop's offset and the characteristic writes made
    \* ---- one AdvertisingPacket
    packet,      \* its bytes and maximum length, the outcome of the last call on it
    \* ---- one value characteristic of a Service instance
    the_characteristic, \* the descriptor, its binding, raw value and last access
    \* ---- one BLEConnection
    connection,  \* the peer's services, both caches and the outcome of the last lookup
    \* ---- one BLERadio
    radio,  \* the scan in progress with what it yielded, the last start_advertising call
    \* ---- one Advertisement of advertising.py
    legacy_adv,  \* its packet and scan response packet, the outcome of the last call
    \* ---- one ScanEntry of scanner.py
    scanned,  \* the received bytes and the outcome of the last lookup
    \* ---- CurrentTimeClient (current_time_client.py)
    time_client   \* its connection, its characteristics and the outcome of the last call

codecVars == <<data, key_size, dec, enc, clen, cpc>>
advVars == <<adv, adv_steps>>
bindVars == <<the_service, bind_op, bind_steps>>
streamVars == <<stream>>
packetVars == <<packet>>
valueVars == <<the_characteristic>>
connectionVars == <<connection>>
radioVars == <<radio>>
legacyVars == <<legacy_adv>>
entryVars == <<scanned>>
timeclientVars == <<time_client>>

vars == <<codecVars, advVars, bindVars, streamVars, packetVars, valueVars, connectionVars, radioVars, legacyVars, entryVars, timeclientVars>>

(***************************************************************************)
(* Bounds of the model.                                                    *)
(***************************************************************************)
MaxLen == 5            \* longest enumerated input packet
MaxOps == 3            \* operations performed on one Advertisement
MaxAttrs == 2          \* characteristics declared by one Service class
MaxBindOps == 3        \* attribute accesses performed on one Service
MaxBuf == 45           \* longest buffer handed to write()

\* the alphabet of the enumerated packets: lengths 0..3 and types 1..3
PacketBytes == 0 .. 3

(***************************************************************************)
(* Python helpers.                                                         *)
(***************************************************************************)
Min(a, b) == IF a < b THEN a ELSE b
Max(a, b) == IF a < b THEN b ELSE a

Fill(n, b) == [i \in 1 .. n |-> b]

\* Python s[a:b] for 0 <= a, 0 <= b (clamped to the length, empty when b <= a)
Slice(s, a, b) == SubSeq(s, Min(a, Len(s)) + 1, Min(b, Len(s)))

RECURSIVE Concat(_)
Concat(ss) == IF ss = <<>> THEN <<>> ELSE Head(ss) \o Concat(Tail(ss))

RECURSIVE SumLen(_)
SumLen(ss) == IF ss = <<>> THEN 0 ELSE Len(Head(ss)) + SumLen(Tail(ss))

\* little-endian integer of a byte string
RECURSIVE LEValue(_)
LEValue(bs) == IF bs = <<>> THEN 0 ELSE Head(bs) + 256 * LEValue(Tail(bs))

\* little-endian bytes of v in n bytes
RECURSIVE LEBytes(_, _)
LEBytes(v, n) == IF n = 0 THEN <<>> ELSE <<v % 256>> \o LEBytes(v \div 256, n - 1)

(***************************************************************************)
(* A dict as a sequence of entries [key, kind, vals] in insertion order.   *)
(* kind "bytes": vals = <<value>>;  kind "list": vals = the list of values *)
(* (company_id, sub and sub_ks are the fields of a ManufacturerData value) *)
(***************************************************************************)
HasKey(d, k) == \E i \in 1 .. Len(d) : d[i].key = k
IndexOf(d, k) == CHOOSE i \in 1 .. Len(d) : d[i].key = k
Entry(k, kind, vals) ==
    [key |-> k, kind |-> kind, vals |-> vals, company_id |-> 0, sub |-> <<>>, sub_ks |-> 0]
BytesEntry(k, v) == Entry(k, "bytes", <<v>>)

\* d[k] = entry: an existing key keeps its position, a new key goes last
DictSet(d, e) ==
    IF HasKey(d, e.key) THEN [d EXCEPT ![IndexOf(d, e.key)] = e] ELSE Append(d, e)

(***************************************************************************)
(* decode_data                                                             *)
(***************************************************************************)
\* a faulty variant of decode_insert: a repeated type keeps its last value only
decode_insert_last(d, key, value) ==
    IF HasKey(d, key) THEN [d EXCEPT ![IndexOf(d, key)] = BytesEntry(key, value)]
    ELSE Append(d, BytesEntry(key, value))

\* lines 64-71: first occurrence stores the value, a repeat promotes to a list
decode_insert(d, key, value) ==
    IF HasKey(d, key)
    THEN LET i == IndexOf(d, key)
             cur == d[i]
         IN  IF cur.kind = "list"
             THEN [d EXCEPT ![i] = Entry(key, "list", Append(cur.vals, value))]
             ELSE [d EXCEPT ![i] = Entry(key, "list", <<cur.vals[1], value>>)]
    ELSE Append(d, BytesEntry(key, value))

\* a faulty variant of decode_value: the value slice stops one byte early
decode_value_short(bs, i, ks, item_length) == Slice(bs, i + ks, i + item_length - 1)

\* line 63: value = data[i + key_size : i + item_length]
decode_value(bs, i, ks, item_length) == Slice(bs, i + ks, i + item_length)

\* the while loop of decode_data; i is the 0-based offset of the next length byte
RECURSIVE decode_loop(_, _, _, _)
decode_loop(bs, ks, i, d) ==
    IF ~(i < Len(bs)) THEN [raised |-> FALSE, dict |-> d]
    ELSE LET item_length == bs[i + 1]
             j == i + 1
         IN  IF item_length = 0 THEN [raised |-> FALSE, dict |-> d]
             \* struct.unpack_from raises struct.error on a buffer too short for the key
             ELSE IF Len(bs) - j < ks THEN [raised |-> TRUE, dict |-> <<>>]
             ELSE LET key == LEValue(SubSeq(bs, j + 1, j + ks))
                      value == decode_value(bs, j, ks, item_length)
                  IN  decode_loop(bs, ks, j + item_length, decode_insert(d, key, value))

decode_data(bs, ks) == decode_loop(bs, ks, 0, <<>>)

(***************************************************************************)
(* compute_length, encode_data; len() and bytes() of a stored value.       *)
(* Besides byte strings and lists a data_dict holds the objects the lazy   *)
(* fields store in it: kind "flags" (AdvertisingFlags, vals = <<<<flags>>>>)*)
(* and kind "mfg" (ManufacturerData: company_id, sub = its data, sub_ks).  *)
(***************************************************************************)
RECURSIVE compute_length(_, _)
RECURSIVE encode_data(_, _)

\* len(value): AdvertisingFlags.__len__ is 1, ManufacturerData.__len__ is
\* 2 + compute_length(self.data)
ValueLen(e) ==
    CASE e.kind = "flags" -> 1
      [] e.kind = "mfg" -> 2 + compute_length(e.sub, e.sub_ks)
      [] OTHER -> Len(e.vals[1])

\* a faulty variant of ValueSize: of a list only the first element is counted
ValueSize_first(e) == IF e.kind = "list" THEN Len(e.vals[1]) ELSE ValueLen(e)

\* lines 79-84: the value bytes compute_length counts for one entry
ValueSize(e) == IF e.kind = "list" THEN SumLen(e.vals) ELSE ValueLen(e)

\* a faulty variant of compute_length: the keys are not counted
compute_length_no_keys(d, ks) ==
    LET RECURSIVE value_size(_)
        value_size(i) == IF i > Len(d) THEN 0 ELSE ValueSize(d[i]) + value_size(i + 1)
    IN  Len(d) + value_size(1)

\* lines 78-85
compute_length(d, ks) ==
    LET RECURSIVE value_size(_)
        value_size(i) == IF i > Len(d) THEN 0 ELSE ValueSize(d[i]) + value_size(i + 1)
    IN  Len(d) + Len(d) * ks + value_size(1)

\* struct.pack_into(fmt, buf, off, v): raises when the bytes do not fit the buffer
PackInto(buf, off, bs) ==
    IF off + Len(bs) > Len(buf) THEN [raised |-> TRUE, bytes |-> buf]
    ELSE [raised |-> FALSE,
          bytes |-> SubSeq(buf, 1, off) \o bs \o SubSeq(buf, off + Len(bs) + 1, Len(buf))]

\* bytearray slice assignment buf[a:b] = bs
SliceAssign(buf, a, b, bs) ==
    LET lo == Min(a, Len(buf))
        hi == Max(Min(b, Len(buf)), lo)
    IN  SubSeq(buf, 1, lo) \o bs \o SubSeq(buf, hi + 1, Len(buf))

\* a faulty variant of ValueBytes: of a list only the first element is written
ValueBytes_first(e) ==
    CASE e.kind = "list" -> [raised |-> FALSE, bytes |-> e.vals[1]]
      [] e.kind = "mfg" ->
            LET sub == encode_data(e.sub, e.sub_ks)
            IN  [raised |-> sub.raised, bytes |-> LEBytes(e.company_id, 2) \o sub.bytes]
      [] OTHER -> [raised |-> FALSE, bytes |-> e.vals[1]]

\* lines 96-97, 101: b"".join(value) of a list, bytes(value) otherwise;
\* ManufacturerData.__bytes__ is the company id then its encoded data
ValueBytes(e) ==
    CASE e.kind = "list" -> [raised |-> FALSE, bytes |-> Concat(e.vals)]
      [] e.kind = "mfg" ->
            LET sub == encode_data(e.sub, e.sub_ks)
            IN  [raised |-> sub.raised, bytes |-> LEBytes(e.company_id, 2) \o sub.bytes]
      [] OTHER -> [raised |-> FALSE, bytes |-> e.vals[1]]

\* line 98: item_length = key_size + len(value)
encode_item_length(e, ks) == ks + ValueSize(e)

\* the for loop of encode_data over d[n..]; i is the 0-based write offset
RECURSIVE encode_loop(_, _, _, _, _)
encode_loop(d, ks, n, i, buf) ==
    IF n > Len(d) THEN [raised |-> FALSE, bytes |-> buf]
    ELSE LET item_length == encode_item_length(d[n], ks)
             value == ValueBytes(d[n])
         IN  \* struct.pack_into("B", ...) raises on a number above 255
             IF item_length > 255 \/ value.raised THEN [raised |-> TRUE, bytes |-> <<>>]
             ELSE LET p1 == PackInto(buf, i, <<item_length>>)
                      p2 == PackInto(p1.bytes, i + 1, LEBytes(d[n].key, ks))
                  IN  IF p1.raised \/ p2.raised THEN [raised |-> TRUE, bytes |-> <<>>]
                      ELSE encode_loop(d, ks, n + 1, i + 1 + item_length,
                                       SliceAssign(p2.bytes, i + 1 + ks,
                                                   i + 1 + item_length, value.bytes))

encode_data(d, ks) == encode_loop(d, ks, 1, 0, Fill(compute_length(d, ks), 0))

(***************************************************************************)
(* The codec run: decode a packet, then encode what was decoded.           *)
(***************************************************************************)
RECURSIVE SeqsUpTo(_, _)
SeqsUpTo(S, n) ==
    IF n = 0 THEN {<<>>}
    ELSE LET shorter == SeqsUpTo(S, n - 1)
         IN  shorter \cup {Append(s, b) : s \in {t \in shorter : Len(t) = n - 1}, b \in S}

\* one run [L][type][value]
Run(t, value) == <<1 + Len(value), t>> \o value

\* the packet of the worked example: flags 0x06 and the name "AB"
ExamplePacket == <<2, 1, 6, 3, 9, 65, 66>>

\* packets whose runs reach the one-byte length limit
LongPackets ==
    { Run(9, Fill(253, 65)), Run(9, Fill(254, 65)),
      Run(9, Fill(126, 65)) \o Run(9, Fill(127, 66)),
      Run(9, Fill(127, 65)) \o Run(9, Fill(127, 66)),
      Run(9, Fill(126, 65)) \o Run(9, Fill(126, 66)) \o Run(9, <<67>>),
      Run(9, Fill(126, 65)) \o Run(9, Fill(126, 66)) \o Run(9, <<67, 68>>),
      Run(9, Fill(127, 65)) \o Run(9, Fill(128, 66)) }

Packets == SeqsUpTo(PacketBytes, MaxLen) \cup {ExamplePacket} \cup LongPackets

(***************************************************************************)
(* Advertisement field accessors.  An Advertisement object is a record:    *)
(*   cls, mutable, data_dict; flags_bound / mfg_bound (the instance        *)
(*   attribute a LazyObjectField sets); made (the advertising data types   *)
(*   of the bound objects constructed so far, one per constructor call);   *)
(*   lists (adv_service_lists, the                                         *)
(*   BoundServiceList); op, raised, ret (the last operation, the exception *)
(*   it raised or "none", and what it returned); prefix (the packed UUID   *)
(*   of the ServiceData field the last ServiceData operation was on).      *)
(* Each operation is an operator from the object to the object after it.   *)
(***************************************************************************)
ADT_FLAGS == 1             \* flags = LazyObjectField(AdvertisingFlags, ...)
ADT_SHORT_NAME == 8
ADT_COMPLETE_NAME == 9
ADT_TX_POWER == 10
ADT_APPEARANCE == 25
ADT_SERVICE_DATA_16 == 22  \* ServiceData of a StandardUUID service
ADT_MANUFACTURER == 255
ADAFRUIT_COMPANY_ID == 2082
COLOR_DATA_ID == 0
MAX_PACKET == 31           \* the size of a legacy advertising packet

Ok(a, op, ret) == [a EXCEPT !.op = op, !.raised = "none", !.ret = ret]
Raise(a, op, exc) == [a EXCEPT !.op = op, !.raised = exc, !.ret = <<>>]

StartsWith(bs, prefix) == Len(bs) >= Len(prefix) /\ SubSeq(bs, 1, Len(prefix)) = prefix

\* str.encode("utf-8") of a string given as its code points (below 0x800)
Utf8Char(cp) == IF cp < 128 THEN <<cp>> ELSE <<192 + (cp \div 64), 128 + (cp % 64)>>

RECURSIVE Utf8Encode(_)
Utf8Encode(str) ==
    IF str = <<>> THEN <<>>
    ELSE IF Len(str) = 1 THEN Utf8Char(str[1])
    ELSE LET h == Len(str) \div 2
         IN  Utf8Encode(SubSeq(str, 1, h)) \o Utf8Encode(SubSeq(str, h + 1, Len(str)))

\* struct.pack(fmt, value) for the formats the fields use; a float stands for
\* its IEEE-754 single-precision bit pattern
StructPack(fmt, v) ==
    CASE fmt = "<b" -> IF v < -128 \/ v > 127 THEN [raised |-> TRUE, bytes |-> <<>>]
                       ELSE [raised |-> FALSE, bytes |-> <<(v + 256) % 256>>]
      [] fmt = "<H" -> IF v < 0 \/ v > 65535 THEN [raised |-> TRUE, bytes |-> <<>>]
                       ELSE [raised |-> FALSE, bytes |-> LEBytes(v, 2)]
      [] fmt = "<I" -> IF v < 0 THEN [raised |-> TRUE, bytes |-> <<>>]
                       ELSE [raised |-> FALSE, bytes |-> LEBytes(v, 4)]
      [] fmt = "<f" -> [raised |-> FALSE, bytes |-> LEBytes(v, 4)]

\* String.__set__
String_set(a, adt, str) ==
    Ok([a EXCEPT !.data_dict = DictSet(@, BytesEntry(adt, Utf8Encode(str)))],
       "String.__set__", <<>>)

\* Struct.__set__
Struct_set(a, adt, fmt, v) ==
    LET packed == StructPack(fmt, v)
    IN  IF packed.raised THEN Raise(a, "Struct.__set__", "struct.error")
        ELSE Ok([a EXCEPT !.data_dict = DictSet(@, BytesEntry(adt, packed.bytes))],
                "Struct.__set__", <<>>)

\* str(value, "utf-8") for code points below 0x800: [raised, str]
IsContinuation(b) == b >= 128 /\ b <= 191
IsLead2(b) == b >= 194 /\ b <= 223
Utf8Decode(bs) ==
    LET valid == \A i \in 1 .. Len(bs) :
                    \/ bs[i] < 128
                    \/ IsLead2(bs[i]) /\ i < Len(bs) /\ IsContinuation(bs[i + 1])
                    \/ IsContinuation(bs[i]) /\ i > 1 /\ IsLead2(bs[i - 1])
        starts == SelectSeq([i \in 1 .. Len(bs) |-> i], LAMBDA i : ~IsContinuation(bs[i]))
    IN  IF ~valid THEN [raised |-> TRUE, str |-> <<>>]
        ELSE [raised |-> FALSE,
              str |-> [k \in 1 .. Len(starts) |->
                         LET b == bs[starts[k]]
                         IN  IF b < 128 THEN b
                             ELSE (b - 192) * 64 + (bs[starts[k] + 1] - 128)]]

\* struct.unpack(fmt, value)[0] for the formats the fields use: [raised, value]
StructUnpack(fmt, bs) ==
    CASE fmt = "<b" -> IF Len(bs) # 1 THEN [raised |-> TRUE, value |-> 0]
                       ELSE [raised |-> FALSE, value |-> IF bs[1] > 127 THEN bs[1] - 256 ELSE bs[1]]
      [] fmt = "<H" -> IF Len(bs) # 2 THEN [raised |-> TRUE, value |-> 0]
                       ELSE [raised |-> FALSE, value |-> LEValue(bs)]
      [] fmt = "<I" -> IF Len(bs) # 4 THEN [raised |-> TRUE, value |-> 0]
                       ELSE [raised |-> FALSE, value |-> LEValue(bs)]
      [] fmt = "<f" -> IF Len(bs) # 4 THEN [raised |-> TRUE, value |-> 0]
                       ELSE [raised |-> FALSE, value |-> LEValue(bs)]

\* String.__get__
String_get(a, adt) ==
    LET op == "String.__get__"
    IN  IF ~HasKey(a.data_dict, adt) THEN Ok(a, op, <<"None">>)
        ELSE LET value == a.data_dict[IndexOf(a.data_dict, adt)]
             IN  IF value.kind = "list" THEN Raise(a, op, "RuntimeError")
                 ELSE IF value.kind # "bytes" THEN Raise(a, op, "TypeError")
                 ELSE LET decoded == Utf8Decode(value.vals[1])
                      IN  IF decoded.raised THEN Raise(a, op, "UnicodeError")
                          ELSE Ok(a, op, <<"str", decoded.str>>)

\* Struct.__get__
Struct_get(a, adt, fmt) ==
    LET op == "Struct.__get__"
    IN  IF ~HasKey(a.data_dict, adt) THEN Ok(a, op, <<"None">>)
        ELSE LET value == a.data_dict[IndexOf(a.data_dict, adt)]
             IN  IF value.kind = "list" THEN Raise(a, op, "RuntimeError")
                 ELSE IF value.kind # "bytes" THEN Raise(a, op, "TypeError")
                 ELSE LET unpacked == StructUnpack(fmt, value.vals[1])
                      IN  IF unpacked.raised THEN Raise(a, op, "struct.error")
                          ELSE Ok(a, op, <<"value", <<unpacked.value>>>>)

\* AdvertisingFlags.__init__: the flags byte read from data_dict
AdvertisingFlags_init(d, adt) ==
    IF ~HasKey(d, adt) THEN [exc |-> "none", flags |-> 0]
    ELSE LET value == d[IndexOf(d, adt)]
         IN  IF value.kind = "list" THEN [exc |-> "RuntimeError", flags |-> 0]
             ELSE IF value.vals[1] = <<>> THEN [exc |-> "IndexError", flags |-> 0]
             ELSE [exc |-> "none", flags |-> value.vals[1][1]]

\* LazyObjectField.__get__ for flags: [a, found, exc]
\* a faulty variant of the lazy flags field: the object is made for a received
\* advertisement too
Flags_get_always(a) ==
    IF a.flags_bound THEN [a |-> a, found |-> TRUE, exc |-> "none"]
    ELSE LET init == AdvertisingFlags_init(a.data_dict, ADT_FLAGS)
         IN  IF init.exc # "none" THEN [a |-> a, found |-> FALSE, exc |-> init.exc]
             ELSE [a |-> [a EXCEPT !.flags_bound = TRUE,
                                   !.made = Append(@, ADT_FLAGS),
                                   !.data_dict = DictSet(@, Entry(ADT_FLAGS, "flags",
                                                                  <<<<init.flags>>>>))],
                   found |-> TRUE, exc |-> "none"]

\* a faulty variant of the lazy flags field: no instance attribute shadows the
\* descriptor, every read constructs a new object
Flags_get_unshadowed(a) ==
    IF ~a.mutable /\ ~HasKey(a.data_dict, ADT_FLAGS)
    THEN [a |-> a, found |-> FALSE, exc |-> "none"]
    ELSE LET init == AdvertisingFlags_init(a.data_dict, ADT_FLAGS)
         IN  IF init.exc # "none" THEN [a |-> a, found |-> FALSE, exc |-> init.exc]
             ELSE [a |-> [a EXCEPT !.flags_bound = TRUE,
                                   !.made = Append(@, ADT_FLAGS),
                                   !.data_dict = DictSet(@, Entry(ADT_FLAGS, "flags",
                                                                  <<<<init.flags>>>>))],
                   found |-> TRUE, exc |-> "none"]

\* LazyObjectField.__get__ of flags (setattr(obj, "flags", bound_obj) makes every
\* later obj.flags the instance attribute): [a, found, exc]
Flags_get(a) ==
    IF a.flags_bound THEN [a |-> a, found |-> TRUE, exc |-> "none"]
    ELSE IF ~a.mutable /\ ~HasKey(a.data_dict, ADT_FLAGS)
    THEN [a |-> a, found |-> FALSE, exc |-> "none"]
    ELSE LET init == AdvertisingFlags_init(a.data_dict, ADT_FLAGS)
         IN  IF init.exc # "none" THEN [a |-> a, found |-> FALSE, exc |-> init.exc]
             ELSE [a |-> [a EXCEPT !.flags_bound = TRUE,
                                   !.made = Append(@, ADT_FLAGS),
                                   !.data_dict = DictSet(@, Entry(ADT_FLAGS, "flags",
                                                                  <<<<init.flags>>>>))],
                   found |-> TRUE, exc |-> "none"]

FlagsOf(a) == a.data_dict[IndexOf(a.data_dict, ADT_FLAGS)].vals[1][1]

\* AdvertisingFlag.__set__ on the flags byte f, bit_position bit
AdvertisingFlag_set(f, bit, value) ==
    LET mask == 2 ^ bit
        isset == (f \div mask) % 2 = 1
    IN  IF value THEN (IF isset THEN f ELSE f + mask)
        ELSE (IF isset THEN f - mask ELSE f)

\* adv.flags.<flag> = value
Flag_assign(a, bit, value) ==
    LET g == Flags_get(a)
    IN  IF g.exc # "none" THEN Raise(a, "AdvertisingFlag.__set__", g.exc)
        ELSE IF ~g.found THEN Raise(a, "AdvertisingFlag.__set__", "AttributeError")
        ELSE LET i == IndexOf(g.a.data_dict, ADT_FLAGS)
                 f == AdvertisingFlag_set(FlagsOf(g.a), bit, value)
             IN  Ok([g.a EXCEPT !.data_dict[i].vals = <<<<f>>>>],
                    "AdvertisingFlag.__set__", <<>>)

\* adv.flags
Flags_read(a) ==
    LET g == Flags_get(a)
    IN  IF g.exc # "none" THEN Raise(a, "LazyObjectField.__get__", g.exc)
        ELSE Ok(g.a, "LazyObjectField.__get__", IF g.found THEN <<"object">> ELSE <<"None">>)

(***************************************************************************)
(* ManufacturerData (LazyObjectField manufacturer_data) and                *)
(* ManufacturerDataField.                                                  *)
(***************************************************************************)
\* ManufacturerData.__init__: the data decoded from an existing 0xFF entry
ManufacturerData_init(d, ks) ==
    IF ~HasKey(d, ADT_MANUFACTURER) THEN [exc |-> "none", data |-> <<>>]
    ELSE LET existing == d[IndexOf(d, ADT_MANUFACTURER)]
         IN  \* a list leaves existing_data = None, and None[2:] raises
             IF existing.kind = "list" THEN [exc |-> "TypeError", data |-> <<>>]
             ELSE LET r == decode_data(Slice(existing.vals[1], 2, Len(existing.vals[1])), ks)
                  IN  IF r.raised THEN [exc |-> "struct.error", data |-> <<>>]
                      ELSE [exc |-> "none", data |-> r.dict]

MfgEntry(company_id, sub, ks) ==
    [key |-> ADT_MANUFACTURER, kind |-> "mfg", vals |-> <<>>,
     company_id |-> company_id, sub |-> sub, sub_ks |-> ks]

\* LazyObjectField.__get__ for manufacturer_data: [a, found, exc]
Mfg_get(a) ==
    IF a.mfg_bound THEN [a |-> a, found |-> TRUE, exc |-> "none"]
    ELSE IF ~a.mutable /\ ~HasKey(a.data_dict, ADT_MANUFACTURER)
    THEN [a |-> a, found |-> FALSE, exc |-> "none"]
    ELSE LET init == ManufacturerData_init(a.data_dict, 2)
         IN  IF init.exc # "none" THEN [a |-> a, found |-> FALSE, exc |-> init.exc]
             ELSE [a |-> [a EXCEPT !.mfg_bound = TRUE,
                                   !.made = Append(@, ADT_MANUFACTURER),
                                   !.data_dict = DictSet(@, MfgEntry(ADAFRUIT_COMPANY_ID,
                                                                     init.data, 2))],
                   found |-> TRUE, exc |-> "none"]

\* adv.manufacturer_data
Mfg_read(a) ==
    LET g == Mfg_get(a)
    IN  IF g.exc # "none" THEN Raise(a, "LazyObjectField.__get__", g.exc)
        ELSE Ok(g.a, "LazyObjectField.__get__", IF g.found THEN <<"object">> ELSE <<"None">>)

\* ManufacturerDataField.__set__ with a single-element format
ManufacturerDataField_set(a, key, fmt, v) ==
    IF ~a.mutable THEN Raise(a, "ManufacturerDataField.__set__", "AttributeError")
    ELSE LET packed == StructPack(fmt, v)
             g == Mfg_get(a)
         IN  IF packed.raised THEN Raise(a, "ManufacturerDataField.__set__", "struct.error")
             ELSE IF g.exc # "none" THEN Raise(a, "ManufacturerDataField.__set__", g.exc)
             ELSE LET i == IndexOf(g.a.data_dict, ADT_MANUFACTURER)
                  IN  Ok([g.a EXCEPT !.data_dict[i].sub = DictSet(@, BytesEntry(key, packed.bytes))],
                         "ManufacturerDataField.__set__", <<>>)

(***************************************************************************)
(* ServiceData of the service whose packed UUID is prefix.                 *)
(***************************************************************************)
FirstWithPrefix(vals, prefix) ==
    CHOOSE i \in 1 .. Len(vals) :
        /\ StartsWith(vals[i], prefix)
        /\ \A j \in 1 .. i - 1 : ~StartsWith(vals[j], prefix)

AnyWithPrefix(vals, prefix) == \E i \in 1 .. Len(vals) : StartsWith(vals[i], prefix)

View(bs, prefix) == <<"view", Slice(bs, Len(prefix), Len(bs))>>

\* ServiceData.__get__
ServiceData_get(a, adt, prefix) ==
    LET op == "ServiceData.__get__"
        absent == ~HasKey(a.data_dict, adt)
        a1 == IF absent /\ a.mutable
              THEN [a EXCEPT !.data_dict = DictSet(@, BytesEntry(adt, prefix))] ELSE a
    IN  IF absent /\ ~a.mutable THEN Ok(a, op, <<"None">>)
        ELSE LET i == IndexOf(a1.data_dict, adt)
                 all == a1.data_dict[i]
             IN  CASE all.kind = "list" ->
                        IF AnyWithPrefix(all.vals, prefix)
                        THEN Ok(a1, op, View(all.vals[FirstWithPrefix(all.vals, prefix)], prefix))
                        ELSE IF a1.mutable
                        THEN Ok([a1 EXCEPT !.data_dict[i].vals = Append(@, prefix)],
                                op, View(prefix, prefix))
                        ELSE Ok(a1, op, <<"None">>)
                   [] all.kind = "bytes" ->
                        IF ~StartsWith(all.vals[1], prefix)
                        THEN IF ~a1.mutable THEN Ok(a1, op, <<"None">>)
                             \* line 359: the value is upgraded to [service_data, service_data]
                             ELSE Ok([a1 EXCEPT !.data_dict[i] = Entry(adt, "list", <<prefix, prefix>>)],
                                     op, View(prefix, prefix))
                        ELSE Ok(a1, op, View(all.vals[1], prefix))
                   [] OTHER -> Ok(a1, op, <<"None">>)

\* ServiceData.__set__ with a bytearray value
ServiceData_set(a, adt, prefix, value) ==
    LET op == "ServiceData.__set__"
        full_value == prefix \o value
    IN  IF ~a.mutable THEN Raise(a, op, "RuntimeError")
        ELSE IF ~HasKey(a.data_dict, adt)
        THEN Ok([a EXCEPT !.data_dict = DictSet(@, BytesEntry(adt, full_value))], op, <<>>)
        ELSE LET i == IndexOf(a.data_dict, adt)
                 all == a.data_dict[i]
             IN  CASE all.kind = "list" ->
                        IF AnyWithPrefix(all.vals, prefix)
                        THEN Ok([a EXCEPT !.data_dict[i].vals[FirstWithPrefix(all.vals, prefix)]
                                              = full_value], op, <<>>)
                        ELSE Ok([a EXCEPT !.data_dict[i].vals = Append(@, full_value)], op, <<>>)
                   [] all.kind = "bytes" ->
                        Ok([a EXCEPT !.data_dict[i] = BytesEntry(adt, full_value)], op, <<>>)
                   [] OTHER -> Ok(a, op, <<>>)

(***************************************************************************)
(* UUIDs, and the service list of an advertisement (ServiceList,           *)
(* BoundServiceList).                                                      *)
(***************************************************************************)
StandardUUID(uuid16) == [type |-> "StandardUUID", uuid16 |-> uuid16, uuid128 |-> <<>>]
VendorUUID(uuid128) == [type |-> "VendorUUID", uuid16 |-> 0, uuid128 |-> uuid128]
\* an object with a uuid attribute (a Service class or instance)
ServiceOf(uuid) == [type |-> "Service", uuid16 |-> uuid.uuid16, uuid128 |-> uuid.uuid128,
                    uuid_type |-> uuid.type]
UuidOf(service) ==
    [type |-> service.uuid_type, uuid16 |-> service.uuid16, uuid128 |-> service.uuid128]

IsUUID(x) == x.type \in {"StandardUUID", "VendorUUID"}

\* UUID.__eq__: equal bleio_uuid for another UUID, False for anything else
UUID_eq(self, other) ==
    IF IsUUID(other)
    THEN self.type = other.type /\ self.uuid16 = other.uuid16 /\ self.uuid128 = other.uuid128
    ELSE FALSE

\* x in uuids, for a list of UUID objects
ListContains(uuids, x) == \E i \in 1 .. Len(uuids) : UUID_eq(uuids[i], x)

\* UUID.pack_into
UuidBytes(u) == IF u.type = "StandardUUID" THEN LEBytes(u.uuid16, 2) ELSE u.uuid128

RECURSIVE PackUuids(_)
PackUuids(uuids) == IF uuids = <<>> THEN <<>> ELSE UuidBytes(Head(uuids)) \o PackUuids(Tail(uuids))

\* the advertising data types of the class's ServiceList field
StandardServiceFields(cls) == IF cls = "SolicitServicesAdvertisement" THEN <<20>> ELSE <<2, 3>>
VendorServiceFields(cls) == IF cls = "SolicitServicesAdvertisement" THEN <<21>> ELSE <<6, 7>>

\* BoundServiceList.__init__, one loop: the UUIDs of width w found under adts[n..]
RECURSIVE ParseServices(_, _, _, _)
ParseServices(d, adts, n, w) ==
    IF n > Len(adts) THEN [exc |-> "none", uuids |-> <<>>]
    ELSE LET rest == ParseServices(d, adts, n + 1, w)
         IN  IF ~HasKey(d, adts[n]) THEN rest
             ELSE LET e == d[IndexOf(d, adts[n])]
                      count == (IF e.kind = "list" THEN Len(e.vals) ELSE ValueLen(e)) \div w
                      found == [i \in 1 .. count |->
                                   LET bs == SubSeq(e.vals[1], w * (i - 1) + 1, w * i)
                                   IN  IF w = 2 THEN StandardUUID(LEValue(bs)) ELSE VendorUUID(bs)]
                  IN  \* a slice of a list of values is no byte string
                      IF e.kind = "list" /\ count > 0 THEN [exc |-> "TypeError", uuids |-> <<>>]
                      ELSE IF e.kind = "list" THEN rest
                      ELSE IF rest.exc # "none" THEN rest
                      ELSE [exc |-> "none", uuids |-> found \o rest.uuids]

ServiceList_present(a) ==
    \/ \E i \in 1 .. Len(StandardServiceFields(a.cls)) :
           HasKey(a.data_dict, StandardServiceFields(a.cls)[i])
    \/ \E i \in 1 .. Len(VendorServiceFields(a.cls)) :
           HasKey(a.data_dict, VendorServiceFields(a.cls)[i])

\* ServiceList.__get__: [a, found, exc]; found FALSE is the empty tuple
ServiceList_get(a) ==
    IF ~ServiceList_present(a) /\ ~a.mutable THEN [a |-> a, found |-> FALSE, exc |-> "none"]
    ELSE IF a.lists.bound THEN [a |-> a, found |-> TRUE, exc |-> "none"]
    ELSE LET std == ParseServices(a.data_dict, StandardServiceFields(a.cls), 1, 2)
             ven == ParseServices(a.data_dict, VendorServiceFields(a.cls), 1, 16)
         IN  IF std.exc # "none" THEN [a |-> a, found |-> FALSE, exc |-> std.exc]
             ELSE IF ven.exc # "none" THEN [a |-> a, found |-> FALSE, exc |-> ven.exc]
             ELSE [a |-> [a EXCEPT !.lists = [bound |-> TRUE, standard |-> std.uuids,
                                              vendor |-> ven.uuids]],
                   found |-> TRUE, exc |-> "none"]

\* BoundServiceList._update with a non-empty list
BoundServiceList_update(a, adt, uuids) ==
    [a EXCEPT !.data_dict = DictSet(@, BytesEntry(adt, PackUuids(uuids)))]

\* BoundServiceList.append: membership is tested on the service, not on its uuid
BoundServiceList_append(a, service) ==
    IF service.uuid_type = "StandardUUID" /\ ~ListContains(a.lists.standard, service)
    THEN LET l == Append(a.lists.standard, UuidOf(service))
         IN  BoundServiceList_update([a EXCEPT !.lists.standard = l],
                                     StandardServiceFields(a.cls)[1], l)
    ELSE IF service.uuid_type = "VendorUUID" /\ ~ListContains(a.lists.vendor, service)
    THEN LET l == Append(a.lists.vendor, UuidOf(service))
         IN  BoundServiceList_update([a EXCEPT !.lists.vendor = l],
                                     VendorServiceFields(a.cls)[1], l)
    ELSE a

\* the for loop of BoundServiceList.extend: the two lists after services[n..]
RECURSIVE extend_loop(_, _, _)
extend_loop(l, services, n) ==
    IF n > Len(services) THEN l
    ELSE LET u == UuidOf(services[n])
         IN  IF u.type = "StandardUUID" /\ ~ListContains(l.standard, u)
             THEN extend_loop([l EXCEPT !.standard = Append(@, u), !.std_new = TRUE],
                              services, n + 1)
             ELSE IF u.type = "VendorUUID" /\ ~ListContains(l.vendor, u)
             THEN extend_loop([l EXCEPT !.vendor = Append(@, u), !.ven_new = TRUE],
                              services, n + 1)
             ELSE extend_loop(l, services, n + 1)

\* BoundServiceList.extend
BoundServiceList_extend(a, services) ==
    LET l == extend_loop([standard |-> a.lists.standard, vendor |-> a.lists.vendor,
                          std_new |-> FALSE, ven_new |-> FALSE], services, 1)
        a1 == [a EXCEPT !.lists.standard = l.standard, !.lists.vendor = l.vendor]
        a2 == IF l.std_new
              THEN BoundServiceList_update(a1, StandardServiceFields(a.cls)[1], l.standard)
              ELSE a1
    IN  IF l.ven_new
        THEN BoundServiceList_update(a2, VendorServiceFields(a.cls)[1], l.vendor)
        ELSE a2

\* adv.services.append(service)
Services_append(a, service) ==
    LET g == ServiceList_get(a)
    IN  IF g.exc # "none" THEN Raise(a, "BoundServiceList.append", g.exc)
        \* the empty tuple has no append
        ELSE IF ~g.found THEN Raise(a, "BoundServiceList.append", "AttributeError")
        ELSE Ok(BoundServiceList_append(g.a, service), "BoundServiceList.append", <<>>)

\* adv.services.extend(services)
Services_extend(a, services) ==
    LET g == ServiceList_get(a)
    IN  IF g.exc # "none" THEN Raise(a, "BoundServiceList.extend", g.exc)
        ELSE IF ~g.found THEN Raise(a, "BoundServiceList.extend", "AttributeError")
        ELSE Ok(BoundServiceList_extend(g.a, services), "BoundServiceList.extend", <<>>)

(***************************************************************************)
(* Construction of an Advertisement, and the values the operations draw.   *)
(***************************************************************************)
NoLists == [bound |-> FALSE, standard |-> <<>>, vendor |-> <<>>]

NewAdvertisement(cls, mutable, d) ==
    [cls |-> cls, mutable |-> mutable, data_dict |-> d, flags_bound |-> FALSE,
     mfg_bound |-> FALSE, made |-> <<>>, lists |-> NoLists, op |-> "__init__", adt |-> 0,
     prefix |-> <<>>, raised |-> "none", ret |-> <<>>]

\* Advertisement.__init__(entry=entry): the data_dict is decoded from the scan entry
Advertisement_from_entry(cls, bs) == NewAdvertisement(cls, FALSE, decode_data(bs, 1).dict)

\* ProvideServicesAdvertisement(*services) and SolicitServicesAdvertisement(*services)
ServicesAdvertisement_init(cls, services) ==
    LET a0 == NewAdvertisement(cls, TRUE, <<>>)
        a1 == IF services # <<>> \/ cls = "SolicitServicesAdvertisement"
              THEN Services_extend(a0, services) ELSE a0
        a2 == Flag_assign(a1, 1, TRUE)      \* flags.general_discovery = True
        a3 == Flag_assign(a2, 2, TRUE)      \* flags.le_only = True
    IN  [a3 EXCEPT !.op = "__init__"]

S1 == ServiceOf(StandardUUID(6159))     \* 0x180F
S2 == ServiceOf(StandardUUID(6153))     \* 0x1809
V1 == ServiceOf(VendorUUID(Fill(16, 171)))

AdvClasses == {"AdafruitColor", "ServiceDataAdvertisement",
               "ProvideServicesAdvertisement", "SolicitServicesAdvertisement"}
ListClasses == {"ProvideServicesAdvertisement", "SolicitServicesAdvertisement"}

\* the packets of the scan entries an incoming Advertisement is built from
EntryPackets ==
    { <<>>, ExamplePacket,
      <<2, 1, 6, 2, 1, 4>>,                                  \* flags twice
      <<2, 1, 6, 2, 10, 252, 3, 25, 193, 3>>,                \* flags, tx_power, appearance
      <<10, 255, 34, 8, 6, 0, 0, 86, 52, 18, 0>>,            \* Adafruit colour
      <<5, 22, 9, 24, 1, 2>>,                                \* service data of 0x1809
      <<4, 22, 15, 24, 7, 5, 22, 9, 24, 1, 2>>,              \* service data of two services
      <<3, 3, 15, 24>>,                                      \* complete list: 0x180F
      <<3, 2, 15, 24, 3, 3, 9, 24>>,                         \* both 16-bit lists
      <<3, 20, 15, 24>> }                                    \* solicited: 0x180F

ShortNames == { <<65, 66>>, <<233>> }                        \* "AB", "e" with an acute accent
CompleteNames == { <<65, 66>>, Fill(30, 65), Fill(255, 65) }
TxPowers == {-4, 200}
Appearances == {961}
FlagBits == {1, 2}
Colors == {255, 1193046}
ServiceDataValues == { <<>>, <<1, 2>> }
ServiceDataPrefix == LEBytes(6153, 2)    \* bytes(StandardUUID(0x1809))
\* the _prefix of the ServiceData fields of a class: services 0x1809 and 0x180F
ServiceDataPrefixes == {ServiceDataPrefix, LEBytes(6159, 2)}
Services == {S1, S2, V1}
ServiceLists == { <<>>, <<S1>>, <<S1, S1>>, <<S1, S2>>, <<V1>>, <<S1, V1>> }
InitServiceLists == { <<>>, <<S1>>, <<S1, V1>> }

AdvIdle == adv = NewAdvertisement("none", FALSE, <<>>) /\ adv_steps = 0

AdvStart ==
    /\ adv_steps = 0
    /\ \/ \E cls \in AdvClasses, bs \in EntryPackets :
             /\ ~decode_data(bs, 1).raised
             /\ adv = Advertisement_from_entry(cls, bs)
       \/ \E cls \in AdvClasses \ ListClasses : adv = NewAdvertisement(cls, TRUE, <<>>)
       \/ \E cls \in ListClasses, services \in InitServiceLists :
             adv = ServicesAdvertisement_init(cls, services)

\* one operation: a is the object after it, adt the data type of the field it read
AdvStepOn(adt, a) ==
    /\ adv.cls # "none"
    /\ adv_steps < MaxOps
    /\ adv' = [a EXCEPT !.adt = adt]
    /\ adv_steps' = adv_steps + 1
    /\ UNCHANGED <<codecVars, bindVars, streamVars, packetVars, valueVars, connectionVars, radioVars, legacyVars, entryVars, timeclientVars>>

AdvStep(a) == AdvStepOn(0, a)

SetShortName == \E str \in ShortNames : AdvStep(String_set(adv, ADT_SHORT_NAME, str))
SetCompleteName == \E str \in CompleteNames : AdvStep(String_set(adv, ADT_COMPLETE_NAME, str))
SetTxPower == \E v \in TxPowers : AdvStep(Struct_set(adv, ADT_TX_POWER, "<b", v))
SetAppearance == \E v \in Appearances : AdvStep(Struct_set(adv, ADT_APPEARANCE, "<H", v))
GetString ==
    \E adt \in {ADT_SHORT_NAME, ADT_COMPLETE_NAME} : AdvStepOn(adt, String_get(adv, adt))
GetStruct ==
    \/ AdvStepOn(ADT_TX_POWER, Struct_get(adv, ADT_TX_POWER, "<b"))
    \/ AdvStepOn(ADT_APPEARANCE, Struct_get(adv, ADT_APPEARANCE, "<H"))
GetFlags == AdvStepOn(ADT_FLAGS, Flags_read(adv))
SetFlag == \E bit \in FlagBits, v \in BOOLEAN : AdvStep(Flag_assign(adv, bit, v))
GetManufacturerData ==
    adv.cls = "AdafruitColor" /\ AdvStepOn(ADT_MANUFACTURER, Mfg_read(adv))
SetColor ==
    /\ adv.cls = "AdafruitColor"
    /\ \E v \in Colors : AdvStep(ManufacturerDataField_set(adv, COLOR_DATA_ID, "<I", v))
GetServiceData ==
    /\ adv.cls = "ServiceDataAdvertisement"
    /\ \E prefix \in ServiceDataPrefixes :
           AdvStep([ServiceData_get(adv, ADT_SERVICE_DATA_16, prefix) EXCEPT !.prefix = prefix])
SetServiceData ==
    /\ adv.cls = "ServiceDataAdvertisement"
    /\ \E v \in ServiceDataValues, prefix \in ServiceDataPrefixes :
           AdvStep([ServiceData_set(adv, ADT_SERVICE_DATA_16, prefix, v) EXCEPT !.prefix = prefix])
AppendService ==
    /\ adv.cls \in ListClasses
    /\ \E service \in Services : AdvStep(Services_append(adv, service))
ExtendServices ==
    /\ adv.cls \in ListClasses
    /\ \E services \in ServiceLists : AdvStep(Services_extend(adv, services))

NextAdv ==
    \/ SetShortName \/ SetCompleteName \/ SetTxPower \/ SetAppearance
    \/ GetString \/ GetStruct
    \/ GetFlags \/ SetFlag \/ GetManufacturerData \/ SetColor
    \/ GetServiceData \/ SetServiceData \/ AppendService \/ ExtendServices

(***************************************************************************)
(* The codec run: decode a packet, then encode what was decoded.           *)
(***************************************************************************)
NoResult == [raised |-> FALSE, bytes |-> <<>>]

CodecIdle ==
    /\ data = <<>> /\ key_size = 1 /\ dec = [raised |-> FALSE, dict |-> <<>>]
    /\ enc = NoResult /\ clen = 0 /\ cpc = "idle"

CodecStart ==
    /\ data \in Packets
    /\ key_size \in {1, 2}
    /\ dec = [raised |-> FALSE, dict |-> <<>>]
    /\ enc = NoResult
    /\ clen = 0
    /\ cpc = "start"

Decode ==
    /\ cpc = "start"
    /\ dec' = decode_data(data, key_size)
    /\ cpc' = "decoded"
    /\ UNCHANGED <<data, key_size, enc, clen, advVars, bindVars, streamVars, packetVars, valueVars, connectionVars, radioVars, legacyVars, entryVars, timeclientVars>>

Encode ==
    /\ cpc = "decoded"
    /\ ~dec.raised
    /\ enc' = encode_data(dec.dict, key_size)
    /\ clen' = compute_length(dec.dict, key_size)
    /\ cpc' = "encoded"
    /\ UNCHANGED <<data, key_size, dec, advVars, bindVars, streamVars, packetVars, valueVars, connectionVars, radioVars, legacyVars, entryVars, timeclientVars>>

NextCodec == Decode \/ Encode

(***************************************************************************)
(* Service and its declared characteristics (services/__init__.py,         *)
(* characteristics/__init__.py).  A Service class is the sequence of its   *)
(* characteristic declarations, in the order of the class body.  A         *)
(* _bleio.Characteristic is identified by its position in the              *)
(* characteristics of the _bleio.Service it belongs to.                    *)
(***************************************************************************)
\* every class attribute name that may occur, in ascending (dir) order; "remote" and
\* "uuid" are not characteristics, "__init__" stands for the dunder names
SortedNames == <<"__init__", "alpha", "beta", "gamma", "remote", "uuid">>
AttrNames == {"alpha", "beta", "gamma"}
DunderNames == {"__init__"}      \* the names for which startswith("__") holds
NameRank(n) == CHOOSE i \in 1 .. Len(SortedNames) : SortedNames[i] = n

\* the uuid= of the descriptor declared under name n
AttrUuid(n) == StandardUUID(NameRank(n))

Declared(cls) == {cls[i].name : i \in 1 .. Len(cls)}
DeclIndex(cls, n) == CHOOSE i \in 1 .. Len(cls) : cls[i].name = n
KindOf(cls, n) == IF n \in Declared(cls) THEN cls[DeclIndex(cls, n)].kind ELSE "other"

\* a faulty variant of dir: the names in the order of the class body
dir_declared(cls) ==
    <<"__init__">> \o [i \in 1 .. Len(cls) |-> cls[i].name] \o <<"remote", "uuid">>

\* dir(self.__class__): the names of the class, sorted
dir(cls) == SelectSeq(SortedNames, LAMBDA n : n \in Declared(cls) \cup {"__init__", "remote", "uuid"})

\* a faulty variant of the search: without the for-else the last characteristic seen is used
FindCharacteristic_no_else(chars, uuid) ==
    IF \E i \in 1 .. Len(chars) : UUID_eq(chars[i].uuid, uuid)
    THEN CHOOSE i \in 1 .. Len(chars) :
            /\ UUID_eq(chars[i].uuid, uuid)
            /\ \A j \in 1 .. i - 1 : ~UUID_eq(chars[j].uuid, uuid)
    ELSE Len(chars)

\* for characteristic in service.bleio_service.characteristics: the first one with
\* the uuid, 0 when the loop ends without a break (lines 117-122, 203-206)
FindCharacteristic(chars, uuid) ==
    IF \E i \in 1 .. Len(chars) : UUID_eq(chars[i].uuid, uuid)
    THEN CHOOSE i \in 1 .. Len(chars) :
            /\ UUID_eq(chars[i].uuid, uuid)
            /\ \A j \in 1 .. i - 1 : ~UUID_eq(chars[j].uuid, uuid)
    ELSE 0

\* the outcome of an attribute access
BindOp(op, name, raised, handle, wrapper, value) ==
    [op |-> op, name |-> name, raised |-> raised, handle |-> handle,
     wrapper |-> wrapper, value |-> value]

\* _bleio.Characteristic.add_to_service(service.bleio_service, uuid, initial_value=...)
add_to_service(s, name, initial_value) ==
    [s EXCEPT !.characteristics = Append(@, [uuid |-> AttrUuid(name), value |-> initial_value]),
              !.adds = Append(@, name)]

\* Characteristic.__bind_locally: no initial value and no max_length gives b""
Characteristic_bind_locally(s, name, has_initial, initial_value) ==
    add_to_service(s, name, IF has_initial THEN initial_value ELSE <<>>)

\* d[e.key] = e for a dict, or setattr(service, e.key, e) where the class defines no
\* __set__ for the name
InstanceSet(attrs, e) ==
    IF HasKey(attrs, e.key) THEN [attrs EXCEPT ![IndexOf(attrs, e.key)] = e]
    ELSE Append(attrs, e)

\* a faulty variant of _ensure_bound: no early return for a bound attribute
Characteristic_ensure_bound_again(s, name, has_initial, initial_value) ==
    IF s.remote
    THEN LET s1 == [s EXCEPT !.searches = Append(@, name)]
             found == FindCharacteristic(s.characteristics, AttrUuid(name))
         IN  IF found = 0 THEN [raised |-> "AttributeError", service |-> s1]
             ELSE [raised |-> "none",
                   service |-> [s1 EXCEPT !.bleio_characteristics =
                                   InstanceSet(@, [key |-> name, handle |-> found])]]
    ELSE LET s1 == Characteristic_bind_locally(s, name, has_initial, initial_value)
         IN  [raised |-> "none",
              service |-> [s1 EXCEPT !.bleio_characteristics =
                              InstanceSet(@, [key |-> name,
                                               handle |-> Len(s1.characteristics)])]]

\* Characteristic._ensure_bound(service, initial_value)
Characteristic_ensure_bound(s, name, has_initial, initial_value) ==
    IF HasKey(s.bleio_characteristics, name) THEN [raised |-> "none", service |-> s]
    ELSE IF s.remote
    THEN LET s1 == [s EXCEPT !.searches = Append(@, name)]
             found == FindCharacteristic(s.characteristics, AttrUuid(name))
         IN  IF found = 0 THEN [raised |-> "AttributeError", service |-> s1]
             ELSE [raised |-> "none",
                   service |-> [s1 EXCEPT !.bleio_characteristics =
                                   Append(@, [key |-> name, handle |-> found])]]
    ELSE LET s1 == Characteristic_bind_locally(s, name, has_initial, initial_value)
         IN  [raised |-> "none",
              service |-> [s1 EXCEPT !.bleio_characteristics =
                              Append(@, [key |-> name, handle |-> Len(s1.characteristics)])]]

\* Characteristic.__get__(service): [service, op]
Characteristic_get(s, name) ==
    LET b == Characteristic_ensure_bound(s, name, FALSE, <<>>)
    IN  IF b.raised # "none"
        THEN [service |-> b.service,
              op |-> BindOp("Characteristic.__get__", name, b.raised, 0, FALSE, <<>>)]
        ELSE LET h == b.service.bleio_characteristics[
                          IndexOf(b.service.bleio_characteristics, name)].handle
             IN  [service |-> b.service,
                  op |-> BindOp("Characteristic.__get__", name, "none", h, FALSE,
                                b.service.characteristics[h].value)]

\* Characteristic.__set__(service, value)
Characteristic_set(s, name, value) ==
    LET b == Characteristic_ensure_bound(s, name, TRUE, value)
    IN  IF b.raised # "none"
        THEN [service |-> b.service,
              op |-> BindOp("Characteristic.__set__", name, b.raised, 0, FALSE, <<>>)]
        ELSE LET h == b.service.bleio_characteristics[
                          IndexOf(b.service.bleio_characteristics, name)].handle
             IN  [service |-> [b.service EXCEPT !.characteristics[h].value = value],
                  op |-> BindOp("Characteristic.__set__", name, "none", h, FALSE, value)]

\* ComplexCharacteristic.bind(service): [raised, service, handle]
ComplexCharacteristic_bind(s, name) ==
    IF s.remote
    THEN LET s1 == [s EXCEPT !.searches = Append(@, name)]
             found == FindCharacteristic(s.characteristics, AttrUuid(name))
         IN  IF found = 0 THEN [raised |-> "AttributeError", service |-> s1, handle |-> 0]
             ELSE [raised |-> "none", service |-> s1, handle |-> found]
    ELSE LET s1 == add_to_service(s, name, <<>>)
         IN  [raised |-> "none", service |-> s1, handle |-> Len(s1.characteristics)]

\* an instance attribute: the bound object made by a ComplexCharacteristic, or a
\* value assigned by the caller
BoundObject(name, handle) == [key |-> name, bound |-> TRUE, handle |-> handle, value |-> <<>>]
PlainValue(name, value) == [key |-> name, bound |-> FALSE, handle |-> 0, value |-> value]

\* ComplexCharacteristic.__get__(service)
ComplexCharacteristic_get(s, name) ==
    LET b == ComplexCharacteristic_bind(s, name)
    IN  IF b.raised # "none"
        THEN [service |-> b.service,
              op |-> BindOp("ComplexCharacteristic.__get__", name, b.raised, 0, FALSE, <<>>)]
        ELSE [service |-> [b.service EXCEPT !.attrs = InstanceSet(@, BoundObject(name, b.handle))],
              op |-> BindOp("ComplexCharacteristic.__get__", name, "none", b.handle, TRUE, <<>>)]

\* getattr(service, name): a Characteristic is a data descriptor; a
\* ComplexCharacteristic defines only __get__, so an instance attribute shadows it
Service_getattr(s, name) ==
    IF KindOf(s.cls, name) = "Characteristic" THEN Characteristic_get(s, name)
    ELSE IF HasKey(s.attrs, name)
    THEN LET e == s.attrs[IndexOf(s.attrs, name)]
         IN  [service |-> s, op |-> BindOp("getattr", name, "none", e.handle, e.bound, e.value)]
    ELSE ComplexCharacteristic_get(s, name)

\* setattr(service, name, value)
Service_setattr(s, name, value) ==
    IF KindOf(s.cls, name) = "Characteristic" THEN Characteristic_set(s, name, value)
    ELSE [service |-> [s EXCEPT !.attrs = InstanceSet(@, PlainValue(name, value))],
          op |-> BindOp("setattr", name, "none", 0, FALSE, value)]

\* the value given for every name of initial_values
InitialValue == <<2>>

\* the loop of Service.__init__ over names[i .. ] (lines 68-87)
RECURSIVE Service_init_loop(_, _, _)
Service_init_loop(s, names, i) ==
    IF i > Len(names) THEN s
    ELSE LET class_attr == names[i]
         IN  IF class_attr \in DunderNames \/ KindOf(s.cls, class_attr) = "other"
             THEN Service_init_loop(s, names, i + 1)
             ELSE LET s1 == [s EXCEPT !.field_names = @ \cup {class_attr}]
                      s2 == IF s1.remote THEN s1
                            ELSE IF class_attr \in s1.initial_values
                            THEN Service_setattr(s1, class_attr, InitialValue).service
                            ELSE Service_getattr(s1, class_attr).service
                  IN  Service_init_loop(s2, names, i + 1)

\* Service.__init__ without the test of service.remote
Service_init_unchecked(s) ==
    LET s0 == [s EXCEPT !.remote = (s.arg = "remote"),
                        !.bleio_service = IF s.arg = "None" THEN "created" ELSE "given",
                        !.characteristics = IF s.arg = "remote" THEN s.peer ELSE <<>>,
                        !.bleio_characteristics = <<>>]
    IN  [service |-> [Service_init_loop(s0, dir(s.cls), 1) EXCEPT !.state = "constructed"],
         op |-> BindOp("Service.__init__", "", "none", 0, FALSE, <<>>)]

\* Service.__init__(service=..., **initial_values); bleio_service is "created" once
\* _bleio.Service(...) has been called, "given" when the argument was stored
Service_init(s) ==
    IF s.arg = "local"
    THEN [service |-> [s EXCEPT !.state = "failed"],
          op |-> BindOp("Service.__init__", "", "ValueError", 0, FALSE, <<>>)]
    ELSE LET s0 == [s EXCEPT !.remote = (s.arg = "remote"),
                             !.bleio_service = IF s.arg = "None" THEN "created" ELSE "given",
                             !.characteristics = IF s.arg = "remote" THEN s.peer ELSE <<>>,
                             !.bleio_characteristics = <<>>]
         IN  [service |-> [Service_init_loop(s0, dir(s.cls), 1) EXCEPT !.state = "constructed"],
              op |-> BindOp("Service.__init__", "", "none", 0, FALSE, <<>>)]

NewService(state, cls, arg, initial_values, peer) ==
    [state |-> state, cls |-> cls, arg |-> arg, initial_values |-> initial_values,
     peer |-> peer, remote |-> FALSE, bleio_service |-> "none", characteristics |-> <<>>,
     bleio_characteristics |-> <<>>, attrs |-> <<>>, field_names |-> {},
     adds |-> <<>>, searches |-> <<>>]

NoBindOp == BindOp("none", "", "none", 0, FALSE, <<>>)

CharacteristicKinds == {"Characteristic", "ComplexCharacteristic"}

\* the Service classes: up to MaxAttrs declarations under distinct names, in any order
ServiceClasses ==
    {c \in UNION {[1 .. n -> [name : AttrNames, kind : CharacteristicKinds]] : n \in 1 .. MaxAttrs} :
        \A i, j \in 1 .. Len(c) : i # j => c[i].name # c[j].name}

\* the characteristics discovered on a peer's service: those of a set of names
PeerOf(S) ==
    LET names == SelectSeq(SortedNames, LAMBDA n : n \in S)
    IN  [i \in 1 .. Len(names) |-> [uuid |-> AttrUuid(names[i]), value |-> <<>>]]
PeerLists == {PeerOf(S) : S \in SUBSET AttrNames}

BindValues == {<<1>>}

BindIdle ==
    /\ the_service = NewService("idle", <<>>, "None", {}, <<>>)
    /\ bind_op = NoBindOp
    /\ bind_steps = 0

\* a Service class is about to be instantiated: service=None, a remote _bleio.Service
\* or a local one
BindStart ==
    /\ \E cls \in ServiceClasses, arg \in {"None", "remote", "local"} :
         \E iv \in (IF arg = "None" THEN SUBSET Declared(cls) ELSE {{}}),
            peer \in (IF arg = "remote" THEN PeerLists ELSE {<<>>}) :
              the_service = NewService("new", cls, arg, iv, peer)
    /\ bind_op = NoBindOp
    /\ bind_steps = 0

Construct ==
    /\ the_service.state = "new"
    /\ LET r == Service_init(the_service)
       IN  the_service' = r.service /\ bind_op' = r.op
    /\ UNCHANGED <<bind_steps, codecVars, advVars, streamVars, packetVars, valueVars, connectionVars, radioVars, legacyVars, entryVars, timeclientVars>>

ReadAttr ==
    /\ the_service.state = "constructed"
    /\ bind_steps < MaxBindOps
    /\ \E n \in Declared(the_service.cls) :
          LET r == Service_getattr(the_service, n)
          IN  the_service' = r.service /\ bind_op' = r.op
    /\ bind_steps' = bind_steps + 1
    /\ UNCHANGED <<codecVars, advVars, streamVars, packetVars, valueVars, connectionVars, radioVars, legacyVars, entryVars, timeclientVars>>

WriteAttr ==
    /\ the_service.state = "constructed"
    /\ bind_steps < MaxBindOps
    /\ \E n \in Declared(the_service.cls), value \in BindValues :
          LET r == Service_setattr(the_service, n, value)
          IN  the_service' = r.service /\ bind_op' = r.op
    /\ bind_steps' = bind_steps + 1
    /\ UNCHANGED <<codecVars, advVars, streamVars, packetVars, valueVars, connectionVars, radioVars, legacyVars, entryVars, timeclientVars>>

NextBind == Construct \/ ReadAttr \/ WriteAttr

(***************************************************************************)
(* The chunked write of BoundWriteStream (characteristics/stream.py) and   *)
(* of UARTServer (uart_server.py), one loop iteration per step.            *)
(***************************************************************************)
ChunkSize == 20        \* "We can only write 20 bytes at a time."

\* a faulty variant of the slice: one byte too many
write_chunk_overlong(buf, offset) == Slice(buf, offset, offset + ChunkSize + 1)

\* buf[offset:offset+20]
write_chunk(buf, offset) == Slice(buf, offset, offset + ChunkSize)

\* bound_characteristic.value = data (core.py write_raw_data, uart_server.py line 142)
write_value(st, chunk) == [st EXCEPT !.writes = Append(@, chunk)]

\* a buffer of n bytes whose bytes differ from place to place
Buffer(n, seed) == [i \in 1 .. n |-> (seed + 7 * i) % 256]
BufferSeeds == {0, 1}

StreamIdle ==
    stream = [pc |-> "idle", via |-> "none", buf |-> <<>>, offset |-> 0, writes |-> <<>>]

StreamStart ==
    \E n \in 0 .. MaxBuf, seed \in BufferSeeds, via \in {"BoundWriteStream", "UARTServer"} :
        stream = [pc |-> "call", via |-> via, buf |-> Buffer(n, seed), offset |-> 0,
                  writes |-> <<>>]

\* offset = 0
write_begin(via) ==
    /\ stream.pc = "call" /\ stream.via = via
    /\ stream' = [stream EXCEPT !.pc = "loop", !.offset = 0]
    /\ UNCHANGED <<codecVars, advVars, bindVars, packetVars, valueVars, connectionVars, radioVars, legacyVars, entryVars, timeclientVars>>

\* one iteration of: while offset < len(buf)
write_iteration(via) ==
    /\ stream.pc = "loop" /\ stream.via = via
    /\ stream.offset < Len(stream.buf)
    /\ stream' = [write_value(stream, write_chunk(stream.buf, stream.offset))
                    EXCEPT !.offset = @ + ChunkSize]
    /\ UNCHANGED <<codecVars, advVars, bindVars, packetVars, valueVars, connectionVars, radioVars, legacyVars, entryVars, timeclientVars>>

\* the loop condition fails: write returns
write_return(via) ==
    /\ stream.pc = "loop" /\ stream.via = via
    /\ ~(stream.offset < Len(stream.buf))
    /\ stream' = [stream EXCEPT !.pc = "done"]
    /\ UNCHANGED <<codecVars, advVars, bindVars, packetVars, valueVars, connectionVars, radioVars, legacyVars, entryVars, timeclientVars>>

BoundWriteStream_write_begin == write_begin("BoundWriteStream")
BoundWriteStream_write_iteration == write_iteration("BoundWriteStream")
BoundWriteStream_write_return == write_return("BoundWriteStream")
UARTServer_write_begin == write_begin("UARTServer")
UARTServer_write_iteration == write_iteration("UARTServer")
UARTServer_write_return == write_return("UARTServer")

NextStream ==
    \/ BoundWriteStream_write_begin \/ BoundWriteStream_write_iteration
    \/ BoundWriteStream_write_return
    \/ UARTServer_write_begin \/ UARTServer_write_iteration \/ UARTServer_write_return

(***************************************************************************)
(* AdvertisingPacket (adafruit_ble/advertising.py): a bytearray of fields  *)
(* [length][type][data] with a maximum length.                             *)
(***************************************************************************)
MaxAdds == 2           \* add_field calls on one packet

MAX_DATA_SIZE == 31

check_length_inclusive(packet_bytes, max_length) ==
    IF Len(packet_bytes) >= max_length THEN "IndexError" ELSE "none"

\* AdvertisingPacket._check_length: the exception raised, "none" when it returns
check_length(packet_bytes, max_length) ==
    IF Len(packet_bytes) > max_length THEN "IndexError" ELSE "none"

\* bytearray.append(b): [raised, bytes]
bytearray_append(bs, b) ==
    IF b \in 0 .. 255 THEN [raised |-> "none", bytes |-> Append(bs, b)]
    ELSE [raised |-> "ValueError", bytes |-> bs]

\* AdvertisingPacket.__init__(data, max_length=max_length)
AdvertisingPacket_init(data_arg, max_length) ==
    [state |-> "live", packet_bytes |-> data_arg, max_length |-> max_length,
     op |-> "__init__", raised |-> check_length(data_arg, max_length),
     length |-> 0, field_len |-> 0, calls |-> 0]

\* AdvertisingPacket.add_field(field_type, field_data) on the packet p; length and
\* field_len record the packet's length before the call and len(field_data)
add_field(p, field_type, field_data) ==
    LET a1 == bytearray_append(p.packet_bytes, 1 + Len(field_data))
        a2 == bytearray_append(a1.bytes, field_type)
        extended == a2.bytes \o field_data
        Done(bs, exc) == [p EXCEPT !.packet_bytes = bs, !.op = "add_field", !.raised = exc,
                                   !.length = Len(p.packet_bytes),
                                   !.field_len = Len(field_data), !.calls = @ + 1]
    IN  IF a1.raised # "none" THEN Done(a1.bytes, a1.raised)
        ELSE IF a2.raised # "none" THEN Done(a2.bytes, a2.raised)
        ELSE Done(extended, check_length(extended, p.max_length))

FieldTypes == {ADT_FLAGS, ADT_MANUFACTURER}
FieldData == {Fill(k, 65) : k \in {0, 1, 2, 27, 28, 29, 30, 254, 255}}
MaxLengths == {4, MAX_DATA_SIZE, 300}

PacketIdle ==
    packet = [state |-> "idle", packet_bytes |-> <<>>, max_length |-> 0, op |-> "none",
              raised |-> "none", length |-> 0, field_len |-> 0, calls |-> 0]

\* a packet that was constructed without an error: empty, or parsed from data
PacketStart ==
    \E data_arg \in {<<>>, <<2, 1, 6>>}, max_length \in MaxLengths :
        /\ packet = AdvertisingPacket_init(data_arg, max_length)
        /\ packet.raised = "none"

AddField ==
    /\ packet.state = "live"
    /\ packet.calls < MaxAdds
    /\ \E field_type \in FieldTypes, field_data \in FieldData :
           packet' = add_field(packet, field_type, field_data)
    /\ UNCHANGED <<codecVars, advVars, bindVars, streamVars, valueVars, connectionVars, radioVars, legacyVars, entryVars, timeclientVars>>

NextPacket == AddField

(***************************************************************************)
(* One value characteristic (StructCharacteristic, IntCharacteristic,      *)
(* FloatCharacteristic, FixedStringCharacteristic) declared on one Service *)
(* instance.  The _bleio.Characteristic it binds to holds the raw value;   *)
(* a float is written as its IEEE-754 bit pattern.                         *)
(***************************************************************************)
MaxValueOps == 3       \* attribute accesses on the characteristic

StructKinds == {"StructCharacteristic", "IntCharacteristic", "FloatCharacteristic"}

\* struct.calcsize(struct_format)
calcsize(fmt) == CASE fmt = "<b" -> 1 [] fmt = "<H" -> 2 [] fmt = "<f" -> 4 [] OTHER -> 0

\* the descriptor after __init__ (max_length 0 stands for None) and the service
\* instance's side of it: remote, whether the peer offers it, its binding
NewCharacteristic(state, kind, fmt, min_value, max_value, remote, peer_has, value) ==
    [state |-> state, kind |-> kind, struct_format |-> fmt, expected_size |-> calcsize(fmt),
     max_length |-> calcsize(fmt), min_value |-> min_value, max_value |-> max_value,
     remote |-> remote, peer_has |-> peer_has, bound |-> FALSE, value |-> value,
     adds |-> 0, writes |-> 0,
     op |-> "none", arg |-> <<>>, raised |-> "none", ret |-> <<>>, calls |-> 0]

\* Characteristic._ensure_bound(service, initial_value) with __bind_locally, for a
\* descriptor whose own initial_value is None: [c, exc]
ensure_bound(c, initial_value) ==
    IF c.bound THEN [c |-> c, exc |-> "none"]
    ELSE IF c.remote
    THEN IF c.peer_has THEN [c |-> [c EXCEPT !.bound = TRUE], exc |-> "none"]
         ELSE [c |-> c, exc |-> "AttributeError"]
    ELSE LET bound_value == IF initial_value # <<"None">> THEN initial_value[2]
                            ELSE Fill(c.max_length, 0)
         IN  [c |-> [c EXCEPT !.bound = TRUE, !.value = bound_value, !.adds = @ + 1],
              exc |-> "none"]

\* Characteristic.__get__: [c, exc, ret]
Characteristic_get_raw(c) ==
    LET b == ensure_bound(c, <<"None">>)
    IN  [c |-> b.c, exc |-> b.exc,
         ret |-> IF b.exc = "none" THEN <<"bytes", b.c.value>> ELSE <<>>]

\* Characteristic.__set__; accepted: whether the _bleio.Characteristic takes the
\* assignment to its value or raises
Characteristic_set_raw(c, value, accepted) ==
    LET b == ensure_bound(c, <<"bytes", value>>)
    IN  IF b.exc # "none" THEN [c |-> b.c, exc |-> b.exc, ret |-> <<>>]
        ELSE IF ~accepted THEN [c |-> b.c, exc |-> "_bleio error", ret |-> <<>>]
        ELSE [c |-> [b.c EXCEPT !.value = value, !.writes = @ + 1],
              exc |-> "none", ret |-> <<>>]

\* StructCharacteristic.__get__
StructCharacteristic_get(c) ==
    LET g == Characteristic_get_raw(c)
        raw_data == g.ret[2]
        u == StructUnpack(c.struct_format, raw_data)
    IN  IF g.exc # "none" THEN g
        ELSE IF Len(raw_data) < c.expected_size THEN [g EXCEPT !.ret = <<"None">>]
        ELSE IF u.raised THEN [g EXCEPT !.exc = "struct.error", !.ret = <<>>]
        ELSE [g EXCEPT !.ret = <<"tuple", <<u.value>>>>]

\* StructCharacteristic.__set__ of a one-element tuple
StructCharacteristic_set(c, v, accepted) ==
    LET encoded == StructPack(c.struct_format, v)
    IN  IF encoded.raised THEN [c |-> c, exc |-> "struct.error", ret |-> <<>>]
        ELSE Characteristic_set_raw(c, encoded.bytes, accepted)

\* IntCharacteristic.__get__: super().__get__(obj)[0]
IntCharacteristic_get(c) ==
    LET g == StructCharacteristic_get(c)
    IN  IF g.exc # "none" THEN g
        ELSE IF g.ret = <<"None">> THEN [g EXCEPT !.exc = "TypeError", !.ret = <<>>]
        ELSE [g EXCEPT !.ret = <<"value", g.ret[2]>>]

\* IntCharacteristic.__set__ without the range test
IntCharacteristic_set_unchecked(c, v, accepted) == StructCharacteristic_set(c, v, accepted)

\* IntCharacteristic.__set__
IntCharacteristic_set(c, v, accepted) ==
    IF ~(c.min_value <= v /\ v <= c.max_value)
    THEN [c |-> c, exc |-> "ValueError", ret |-> <<>>]
    ELSE StructCharacteristic_set(c, v, accepted)

\* FloatCharacteristic.__get__
FloatCharacteristic_get(c) ==
    LET g == StructCharacteristic_get(c)
    IN  IF g.exc # "none" THEN g
        ELSE IF g.ret = <<"None">> THEN [g EXCEPT !.exc = "RuntimeError", !.ret = <<>>]
        ELSE [g EXCEPT !.ret = <<"value", g.ret[2]>>]

\* FixedStringCharacteristic.__get__
FixedStringCharacteristic_get(c) ==
    LET g == Characteristic_get_raw(c)
        decoded == Utf8Decode(g.ret[2])
    IN  IF g.exc # "none" THEN g
        ELSE IF decoded.raised THEN [g EXCEPT !.exc = "UnicodeError", !.ret = <<>>]
        ELSE [g EXCEPT !.ret = <<"str", decoded.str>>]

\* getattr(service, field_name): the descriptor's __get__
Value_get(c) ==
    CASE c.kind = "StructCharacteristic" -> StructCharacteristic_get(c)
      [] c.kind = "IntCharacteristic" -> IntCharacteristic_get(c)
      [] c.kind = "FloatCharacteristic" -> FloatCharacteristic_get(c)
      [] c.kind = "FixedStringCharacteristic" -> FixedStringCharacteristic_get(c)

\* setattr(service, field_name, value): the descriptor's __set__ (FloatCharacteristic
\* passes (value,) on, FixedStringCharacteristic inherits Characteristic.__set__)
Value_set(c, value, accepted) ==
    CASE c.kind = "StructCharacteristic" -> StructCharacteristic_set(c, value[1], accepted)
      [] c.kind = "IntCharacteristic" -> IntCharacteristic_set(c, value[1], accepted)
      [] c.kind = "FloatCharacteristic" -> StructCharacteristic_set(c, value[1], accepted)
      [] c.kind = "FixedStringCharacteristic" -> Characteristic_set_raw(c, value, accepted)

\* the outcome r of the access op(arg) recorded on the characteristic
Accessed(r, op, arg) ==
    [r.c EXCEPT !.op = op, !.arg = arg, !.raised = r.exc, !.ret = r.ret,
                !.calls = @ + 1]

\* the declared characteristics: kind, format, min_value, max_value
ValueClasses ==
    {<<"StructCharacteristic", "<H", 0, 0>>, <<"IntCharacteristic", "<b", -128, 127>>,
     <<"IntCharacteristic", "<H", 1, 100>>, <<"FloatCharacteristic", "<f", 0, 0>>,
     <<"FixedStringCharacteristic", "", 0, 0>>}

\* the raw values a peer may hold
PeerValues(kind) ==
    IF kind = "FixedStringCharacteristic" THEN {<<>>, <<97, 98>>, <<200>>}
    ELSE {<<>>, <<7>>, <<7, 0>>, <<0, 0, 128, 63>>, <<1, 2, 3, 4, 5>>}

\* the values assigned
AssignedValues(kind) ==
    CASE kind = "StructCharacteristic" -> {<<0>>, <<65535>>, <<65536>>}
      [] kind = "IntCharacteristic" -> {<<-129>>, <<-128>>, <<0>>, <<1>>, <<100>>, <<101>>,
                                        <<127>>, <<128>>}
      [] kind = "FloatCharacteristic" -> {<<0>>, <<1065353216>>}
      [] kind = "FixedStringCharacteristic" -> {<<97, 98>>, <<99, 100>>, <<101>>}

ValueIdle ==
    the_characteristic = NewCharacteristic("idle", "none", "", 0, 0, FALSE, FALSE, <<>>)

\* a service instance exists, local or remote; the characteristic is not bound yet
ValueStart ==
    \E cls \in ValueClasses, remote \in BOOLEAN :
        \E peer_has \in (IF remote THEN BOOLEAN ELSE {FALSE}),
           value \in (IF remote THEN PeerValues(cls[1]) ELSE {<<>>}) :
            the_characteristic =
                NewCharacteristic("live", cls[1], cls[2], cls[3], cls[4], remote, peer_has, value)

ReadValue ==
    /\ the_characteristic.state = "live"
    /\ the_characteristic.calls < MaxValueOps
    /\ the_characteristic' = Accessed(Value_get(the_characteristic), "__get__", <<>>)
    /\ UNCHANGED <<codecVars, advVars, bindVars, streamVars, packetVars, connectionVars, radioVars, legacyVars, entryVars, timeclientVars>>

WriteValue ==
    /\ the_characteristic.state = "live"
    /\ the_characteristic.calls < MaxValueOps
    /\ \E value \in AssignedValues(the_characteristic.kind), accepted \in BOOLEAN :
           the_characteristic' =
               Accessed(Value_set(the_characteristic, value, accepted), "__set__", value)
    /\ UNCHANGED <<codecVars, advVars, bindVars, streamVars, packetVars, connectionVars, radioVars, legacyVars, entryVars, timeclientVars>>

NextValue == ReadValue \/ WriteValue

(***************************************************************************)
(* BLEConnection as a map from a Service class or a UUID to the Service    *)
(* instance for the connection's peer.  A key is [cls, uuid]: cls "none"   *)
(* for a bare UUID, the class name for a Service class with that uuid.     *)
(* The Service objects are numbered in the order they are constructed.     *)
(***************************************************************************)
MaxConnOps == 3        \* lookups on one connection

\* BLEConnection.__init__
NewConnection(state, peer) ==
    [state |-> state, peer |-> peer, discovered_bleio_services |-> {},
     constructed_services |-> <<>>, discoveries |-> 0, asked |-> <<>>,
     op |-> "none", key |-> [cls |-> "none", uuid |-> 0],
     raised |-> "none", ret |-> <<>>, calls |-> 0]

\* BLEConnection._discover_remote without the _discovered_bleio_services cache
discover_remote_uncached(c, uuid) ==
    LET asked == [c EXCEPT !.discoveries = @ + 1,
                           !.asked = Append(@, [uuid |-> uuid, found |-> uuid \in c.peer])]
    IN  IF uuid \in c.peer
        THEN [c |-> [asked EXCEPT !.discovered_bleio_services = @ \cup {uuid}],
              found |-> TRUE]
        ELSE [c |-> asked, found |-> FALSE]

\* BLEConnection._discover_remote(uuid): [c, found]; asked is the log of the
\* calls of discover_remote_services, each with the uuid and whether the peer
\* returned the service
discover_remote(c, uuid) ==
    IF uuid \in c.discovered_bleio_services THEN [c |-> c, found |-> TRUE]
    ELSE LET asked == [c EXCEPT !.discoveries = @ + 1,
                                !.asked = Append(@, [uuid |-> uuid, found |-> uuid \in c.peer])]
         IN  IF uuid \in c.peer
             THEN [c |-> [asked EXCEPT !.discovered_bleio_services = @ \cup {uuid}],
                   found |-> TRUE]
             ELSE [c |-> asked, found |-> FALSE]

\* the outcome of the lookup op(key) recorded on the connection
Looked(c, op, key, exc, ret) ==
    [c EXCEPT !.op = op, !.key = key, !.raised = exc, !.ret = ret, !.calls = @ + 1]

\* BLEConnection.__contains__(key)
BLEConnection_contains(c, key) ==
    LET d == discover_remote(c, key.uuid)
    IN  Looked(d.c, "__contains__", key, "none", <<"bool", IF d.found THEN 1 ELSE 0>>)

\* BLEConnection.__getitem__ that returns None where the peer lacks the service
BLEConnection_getitem_or_none(c, key) ==
    LET op == "__getitem__"
        maybe_service == key.cls # "none"
        at == {i \in 1 .. Len(c.constructed_services) : c.constructed_services[i].uuid = key.uuid}
        d == discover_remote(c, key.uuid)
        constructed_service == Len(c.constructed_services) + 1
    IN  IF at # {}
        THEN Looked(c, op, key, "none", <<"Service", c.constructed_services[CHOOSE i \in at : TRUE].id>>)
        ELSE IF d.found /\ maybe_service
        THEN Looked([d.c EXCEPT !.constructed_services =
                                  Append(@, [uuid |-> key.uuid, cls |-> key.cls,
                                             id |-> constructed_service])],
                    op, key, "none", <<"Service", constructed_service>>)
        ELSE Looked(d.c, op, key, "none", <<"None", 0>>)

\* BLEConnection.__getitem__(key)
BLEConnection_getitem(c, key) ==
    LET op == "__getitem__"
        maybe_service == key.cls # "none"
        at == {i \in 1 .. Len(c.constructed_services) : c.constructed_services[i].uuid = key.uuid}
        d == discover_remote(c, key.uuid)
        constructed_service == Len(c.constructed_services) + 1
    IN  IF at # {}
        THEN Looked(c, op, key, "none", <<"Service", c.constructed_services[CHOOSE i \in at : TRUE].id>>)
        ELSE IF d.found
        THEN IF maybe_service
             THEN Looked([d.c EXCEPT !.constructed_services =
                                       Append(@, [uuid |-> key.uuid, cls |-> key.cls,
                                                  id |-> constructed_service])],
                         op, key, "none", <<"Service", constructed_service>>)
             ELSE Looked(d.c, op, key, "none", <<"None", 0>>)
        ELSE Looked(d.c, op, key, "KeyError", <<>>)

ServiceUuids == {1, 2}
ConnectionKeys ==
    {[cls |-> "none", uuid |-> u] : u \in ServiceUuids}
        \cup {[cls |-> "ServiceA", uuid |-> 1], [cls |-> "ServiceB", uuid |-> 2]}

ConnectionIdle == connection = NewConnection("idle", {})

\* a connection to a peer offering some of the services
ConnectionStart == \E peer \in SUBSET ServiceUuids : connection = NewConnection("live", peer)

Contains ==
    /\ connection.state = "live"
    /\ connection.calls < MaxConnOps
    /\ \E key \in ConnectionKeys : connection' = BLEConnection_contains(connection, key)
    /\ UNCHANGED <<codecVars, advVars, bindVars, streamVars, packetVars, valueVars, radioVars, legacyVars, entryVars, timeclientVars>>

GetItem ==
    /\ connection.state = "live"
    /\ connection.calls < MaxConnOps
    /\ \E key \in ConnectionKeys : connection' = BLEConnection_getitem(connection, key)
    /\ UNCHANGED <<codecVars, advVars, bindVars, streamVars, packetVars, valueVars, radioVars, legacyVars, entryVars, timeclientVars>>

NextConnection == Contains \/ GetItem

(***************************************************************************)
(* BLERadio: start_scan over the scan entries the adapter delivers, and    *)
(* start_advertising.  An Advertisement class is its name; a scan entry is *)
(* its advertisement_bytes.                                                *)
(***************************************************************************)
MaxEntries == 2        \* scan entries the adapter delivers in one scan
MaxTypes == 2          \* advertisement_types given to start_scan

AdvertisementTypes ==
    {"Advertisement", "ProvideServicesAdvertisement", "SolicitServicesAdvertisement",
     "AdafruitColor"}

\* the class attribute match_prefixes
match_prefixes(cls) ==
    CASE cls = "ProvideServicesAdvertisement" -> << <<2>>, <<3>>, <<6>>, <<7>> >>
      [] cls = "SolicitServicesAdvertisement" -> << <<20>>, <<21>> >>
      [] cls = "AdafruitColor" ->
             << <<ADT_MANUFACTURER>> \o LEBytes(ADAFRUIT_COMPANY_ID, 2) \o <<6>>
                    \o LEBytes(COLOR_DATA_ID, 2) >>
      [] OTHER -> <<>>

\* Advertisement.get_prefix_bytes: the prefixes, each behind its length
get_prefix_bytes(cls) ==
    Concat([i \in 1 .. Len(match_prefixes(cls)) |->
               <<Len(match_prefixes(cls)[i])>> \o match_prefixes(cls)[i]])

\* the pieces of a byte string made of [length][piece] runs
RECURSIVE LengthPrefixed(_)
LengthPrefixed(bs) ==
    IF bs = <<>> \/ bs[1] = 0 THEN <<>>
    ELSE <<Slice(bs, 1, 1 + bs[1])>> \o LengthPrefixed(Slice(bs, 1 + bs[1], Len(bs)))

\* entry.matches(prefixes, match_all=all_): true for no prefixes; otherwise whether
\* all (any) of the prefixes start one of the entry's data structures
ScanEntry_matches(advertisement_bytes, prefixes, match_all) ==
    LET ps == LengthPrefixed(prefixes)
        fields == LengthPrefixed(advertisement_bytes)
        Hit(p) == \E j \in 1 .. Len(fields) : StartsWith(fields[j], p)
    IN  IF prefixes = <<>> THEN TRUE
        ELSE IF match_all THEN \A i \in 1 .. Len(ps) : Hit(ps[i])
        ELSE \E i \in 1 .. Len(ps) : Hit(ps[i])

\* cls.matches(entry): all prefixes, any prefix for ProvideServicesAdvertisement
matches(cls, entry) ==
    ScanEntry_matches(entry, get_prefix_bytes(cls), cls # "ProvideServicesAdvertisement")

\* issubclass(a, b) among the Advertisement classes
issubclass(a, b) == a = b \/ b = "Advertisement"

\* start_scan's loop over advertisement_types[i ..] for one entry, without the
\* test of matches
RECURSIVE select_type_unmatched(_, _, _, _)
select_type_unmatched(adv_type, advertisement_types, i, entry) ==
    IF i > Len(advertisement_types) THEN adv_type
    ELSE LET possible_type == advertisement_types[i]
         IN  select_type_unmatched(IF issubclass(possible_type, adv_type)
                                   THEN possible_type ELSE adv_type,
                                   advertisement_types, i + 1, entry)

\* start_scan's loop over advertisement_types[i ..] for one entry
RECURSIVE select_type(_, _, _, _)
select_type(adv_type, advertisement_types, i, entry) ==
    IF i > Len(advertisement_types) THEN adv_type
    ELSE LET possible_type == advertisement_types[i]
         IN  select_type(IF matches(possible_type, entry) /\ issubclass(possible_type, adv_type)
                         THEN possible_type ELSE adv_type,
                         advertisement_types, i + 1, entry)

\* the body of start_scan's loop for one entry: the advertisement is yielded,
\* the entry is skipped, or the constructor raises
scan_entry(r, entry) ==
    LET adv_type == select_type("Advertisement", r.advertisement_types, 1, entry)
        decoded == decode_data(entry, 1)
        seen == [r EXCEPT !.entries = Append(@, entry)]
        requested == \E i \in 1 .. Len(r.advertisement_types) :
                         r.advertisement_types[i] = adv_type
    IN  IF ~requested THEN seen
        ELSE IF decoded.raised THEN [seen EXCEPT !.state = "ready", !.raised = "struct.error"]
        ELSE IF compute_length(decoded.dict, 1) = 0 THEN seen
        ELSE [seen EXCEPT !.yielded = Append(@, [cls |-> adv_type, entry |-> entry])]

\* BLERadio.start_advertising generating the scan response whatever the length of
\* the advertisement is
start_advertising_always(r, advertisement, scan_response, timeout, legacy) ==
    LET advertisement_bytes == encode_data(advertisement.data_dict, 1)
        generated == Struct_set(String_set(NewAdvertisement("Advertisement", TRUE, <<>>),
                                           ADT_COMPLETE_NAME, r.name),
                                ADT_TX_POWER, "<b", 0)
        used == IF scan_response.cls = "none" \/ compute_length(scan_response.data_dict, 1) = 0
                THEN generated ELSE scan_response
        scan_response_bytes == encode_data(used.data_dict, 1)
        called == [r EXCEPT !.op = "start_advertising",
                            !.scan_response_none = scan_response.cls = "none",
                            !.advertisement_bytes = advertisement_bytes.bytes]
    IN  IF advertisement_bytes.raised \/ scan_response_bytes.raised
        THEN [called EXCEPT !.raised = "struct.error"]
        ELSE IF legacy /\ timeout # -1 THEN [called EXCEPT !.raised = "NotImplementedError"]
        ELSE [called EXCEPT !.raised = "none", !.advertising = TRUE,
                            !.scan_response_bytes = scan_response_bytes.bytes,
                            !.timeout = IF legacy THEN -1 ELSE IF timeout = -1 THEN 0 ELSE timeout]

\* BLERadio.start_advertising(advertisement, scan_response, timeout=timeout); a
\* scan_response of class "none" is None, timeout -1 is None, legacy is CircuitPython 5.x
start_advertising(r, advertisement, scan_response, timeout, legacy) ==
    LET advertisement_bytes == encode_data(advertisement.data_dict, 1)
        falsy == scan_response.cls = "none" \/ compute_length(scan_response.data_dict, 1) = 0
        generated == Struct_set(String_set(NewAdvertisement("Advertisement", TRUE, <<>>),
                                           ADT_COMPLETE_NAME, r.name),
                                ADT_TX_POWER, "<b", 0)
        used == IF falsy /\ Len(advertisement_bytes.bytes) <= MAX_PACKET
                THEN generated ELSE scan_response
        scan_response_bytes ==
            IF used.cls = "none" \/ compute_length(used.data_dict, 1) = 0
            THEN [raised |-> FALSE, bytes |-> <<>>]
            ELSE encode_data(used.data_dict, 1)
        called == [r EXCEPT !.op = "start_advertising",
                            !.scan_response_none = scan_response.cls = "none",
                            !.advertisement_bytes = advertisement_bytes.bytes]
    IN  IF advertisement_bytes.raised \/ scan_response_bytes.raised
        THEN [called EXCEPT !.raised = "struct.error"]
        ELSE IF legacy /\ timeout # -1 THEN [called EXCEPT !.raised = "NotImplementedError"]
        ELSE [called EXCEPT !.raised = "none", !.advertising = TRUE,
                            !.scan_response_bytes = scan_response_bytes.bytes,
                            !.timeout = IF legacy THEN -1 ELSE IF timeout = -1 THEN 0 ELSE timeout]

\* BLERadio.__init__ on an adapter of the given name
NewRadio(state, name) ==
    [state |-> state, name |-> name, op |-> "none", raised |-> "none",
     given_types |-> <<>>, advertisement_types |-> <<>>, entries |-> <<>>, yielded |-> <<>>,
     advertising |-> FALSE, scan_response_none |-> FALSE, advertisement_bytes |-> <<>>,
     scan_response_bytes |-> <<>>, timeout |-> -1]

RadioNames == {<<67, 80>>, Fill(253, 65)}

\* the advertisement_types tuples given to start_scan
TypeLists == UNION {[1 .. n -> AdvertisementTypes] : n \in 0 .. MaxTypes}

\* the scan entries on the air
ScanEntries == EntryPackets \cup {<<3, 20, 15, 24, 17, 21, 1, 2, 3, 4, 5, 6, 7, 8, 9, 10, 11,
                                   12, 13, 14, 15, 16>>, <<2>>}

\* the advertisements handed to start_advertising
Advertised ==
    {String_set(NewAdvertisement("Advertisement", TRUE, <<>>), ADT_COMPLETE_NAME, Fill(n, 65)) :
        n \in {2, 29, 30, 255}}
      \cup {ServicesAdvertisement_init("ProvideServicesAdvertisement", l) : l \in InitServiceLists}

\* the scan_response arguments: None, an empty Advertisement, one with a short name
ScanResponses ==
    {NewAdvertisement("none", FALSE, <<>>), NewAdvertisement("Advertisement", TRUE, <<>>),
     String_set(NewAdvertisement("Advertisement", TRUE, <<>>), ADT_SHORT_NAME, <<65, 66>>)}

RadioIdle == radio = NewRadio("idle", <<>>)

RadioStart == \E name \in RadioNames : radio = NewRadio("ready", name)

\* start_scan(*advertisement_types) up to its loop
StartScan ==
    /\ radio.state = "ready" /\ radio.op = "none"
    /\ \E given \in TypeLists :
          radio' = [radio EXCEPT !.state = "scanning", !.op = "start_scan",
                                 !.given_types = given,
                                 !.advertisement_types =
                                     IF given = <<>> THEN <<"Advertisement">> ELSE given]
    /\ UNCHANGED <<codecVars, advVars, bindVars, streamVars, packetVars, valueVars, connectionVars, legacyVars, entryVars, timeclientVars>>

\* one turn of start_scan's loop: the adapter delivers an entry
ScanEntry ==
    /\ radio.state = "scanning"
    /\ Len(radio.entries) < MaxEntries
    /\ \E entry \in ScanEntries : radio' = scan_entry(radio, entry)
    /\ UNCHANGED <<codecVars, advVars, bindVars, streamVars, packetVars, valueVars, connectionVars, legacyVars, entryVars, timeclientVars>>

\* the adapter's iterator ends (stop_scan or the timeout)
ScanEnd ==
    /\ radio.state = "scanning"
    /\ radio' = [radio EXCEPT !.state = "ready"]
    /\ UNCHANGED <<codecVars, advVars, bindVars, streamVars, packetVars, valueVars, connectionVars, legacyVars, entryVars, timeclientVars>>

StartAdvertising ==
    /\ radio.state = "ready" /\ radio.op = "none"
    /\ \E advertisement \in Advertised, scan_response \in ScanResponses,
          timeout \in {-1, 5}, legacy \in BOOLEAN :
          radio' = start_advertising(radio, advertisement, scan_response, timeout, legacy)
    /\ UNCHANGED <<codecVars, advVars, bindVars, streamVars, packetVars, valueVars, connectionVars, legacyVars, entryVars, timeclientVars>>

NextRadio == StartScan \/ ScanEntry \/ ScanEnd \/ StartAdvertising

(***************************************************************************)
(* Advertisement of advertising.py: an advertising data packet and an      *)
(* optional scan response packet, both AdvertisingPacket objects.  before  *)
(* and scan_response_before record the primary packet's bytes and the scan *)
(* response packet before the last call, name the encoded name it was      *)
(* given.                                                                  *)
(***************************************************************************)
MaxLegacyOps == 2      \* add_uuids / add_name calls on one Advertisement

SHORT_LOCAL_NAME == 8
COMPLETE_LOCAL_NAME == 9
ALL_16_BIT_SERVICE_UUIDS == 3
ALL_128_BIT_SERVICE_UUIDS == 7

\* AdvertisingPacket.bytes_remaining
bytes_remaining(p) == p.max_length - Len(p.packet_bytes)

NoPacket ==
    [state |-> "None", packet_bytes |-> <<>>, max_length |-> 0, op |-> "none",
     raised |-> "none", length |-> 0, field_len |-> 0, calls |-> 0]

LegacyDone(a, op, exc, name_bytes) ==
    [a EXCEPT !.op = op, !.raised = exc, !.name = name_bytes,
              !.before = a.packet.packet_bytes,
              !.scan_response_before = a.scan_response_packet, !.calls = a.calls + 1]

\* Advertisement.__init__(flags, tx_power): flags 0 stands for None, tx_power
\* is <<>> for None and <<value>> otherwise
LegacyAdvertisement_init(flags, tx_power) ==
    LET p0 == AdvertisingPacket_init(<<>>, MAX_DATA_SIZE)
        p1 == add_field(p0, ADT_FLAGS, <<IF flags # 0 THEN flags ELSE 6>>)
        p2 == IF tx_power # <<>>
              THEN add_field(p1, ADT_TX_POWER, StructPack("<b", tx_power[1]).bytes)
              ELSE p1
    IN  [state |-> "live", packet |-> p2, scan_response_packet |-> NoPacket,
         op |-> "__init__", raised |-> p2.raised, name |-> <<>>, before |-> <<>>,
         scan_response_before |-> NoPacket, calls |-> 0]

\* a faulty variant of add_name: the complete name is also put in the scan
\* response when it fits the primary packet
add_name_both(a, name) ==
    LET name_bytes == Utf8Encode(name)
        bytes_available == bytes_remaining(a.packet) - 2
        done == LegacyDone(a, "add_name", "none", name_bytes)
    IN  IF bytes_available <= 0 THEN [done EXCEPT !.raised = "IndexError"]
        ELSE LET sr == add_field(AdvertisingPacket_init(<<>>, MAX_DATA_SIZE),
                                 COMPLETE_LOCAL_NAME, name_bytes)
                 p == IF bytes_available >= Len(name_bytes)
                      THEN add_field(a.packet, COMPLETE_LOCAL_NAME, name_bytes)
                      ELSE add_field(a.packet, SHORT_LOCAL_NAME,
                                     Slice(name_bytes, 0, bytes_available))
             IN  [done EXCEPT !.packet = p, !.scan_response_packet = sr,
                              !.raised = IF p.raised # "none" THEN p.raised ELSE sr.raised]

\* Advertisement.add_name(name)
add_name(a, name) ==
    LET name_bytes == Utf8Encode(name)
        bytes_available == bytes_remaining(a.packet) - 2
        done == LegacyDone(a, "add_name", "none", name_bytes)
    IN  IF bytes_available <= 0 THEN [done EXCEPT !.raised = "IndexError"]
        ELSE IF bytes_available >= Len(name_bytes)
        THEN LET p == add_field(a.packet, COMPLETE_LOCAL_NAME, name_bytes)
             IN  [done EXCEPT !.packet = p, !.raised = p.raised]
        ELSE LET p == add_field(a.packet, SHORT_LOCAL_NAME,
                                Slice(name_bytes, 0, bytes_available))
             IN  IF p.raised # "none" THEN [done EXCEPT !.packet = p, !.raised = p.raised]
                 ELSE LET sr == add_field(AdvertisingPacket_init(<<>>, MAX_DATA_SIZE),
                                          COMPLETE_LOCAL_NAME, name_bytes)
                      IN  \* except IndexError: raise IndexError("Name too long")
                          [done EXCEPT !.packet = p, !.scan_response_packet = sr,
                                       !.raised = sr.raised]

\* Advertisement.add_uuids(uuids, field_type_16_bit_uuids, field_type_128_bit_uuids)
add_uuids(a, uuids, field_type_16_bit_uuids, field_type_128_bit_uuids) ==
    LET concatenated_16_bit_uuids ==
            PackUuids(SelectSeq(uuids, LAMBDA u : u.type = "StandardUUID"))
        uuids_128_bits == SelectSeq(uuids, LAMBDA u : u.type = "VendorUUID")
        done == LegacyDone(a, "add_uuids", "none", <<>>)
        p1 == IF concatenated_16_bit_uuids # <<>>
              THEN add_field(a.packet, field_type_16_bit_uuids, concatenated_16_bit_uuids)
              ELSE [a.packet EXCEPT !.raised = "none"]
    IN  IF p1.raised # "none" THEN [done EXCEPT !.packet = p1, !.raised = p1.raised]
        ELSE IF Len(uuids_128_bits) > 1 THEN [done EXCEPT !.packet = p1, !.raised = "ValueError"]
        ELSE IF uuids_128_bits # <<>>
        THEN LET p2 == add_field(p1, field_type_128_bit_uuids, uuids_128_bits[1].uuid128)
             IN  [done EXCEPT !.packet = p2, !.raised = p2.raised]
        ELSE [done EXCEPT !.packet = p1]

\* names as code points: "", "AB", up to 255 characters, and 25 letters followed
\* by a two-byte character
LegacyNames ==
    {Fill(k, 65) : k \in {0, 2, 4, 5, 20, 23, 26, 27, 29, 30, 255}}
        \cup {Fill(25, 65) \o <<233>>}

LegacyUuidLists ==
    { <<>>, <<StandardUUID(6159)>>, <<StandardUUID(6159), StandardUUID(6153)>>,
      <<VendorUUID(Fill(16, 171))>>,
      <<StandardUUID(6159), VendorUUID(Fill(16, 171))>>,
      <<StandardUUID(6159), StandardUUID(6153), VendorUUID(Fill(16, 171))>>,
      <<VendorUUID(Fill(16, 171)), VendorUUID(Fill(16, 205))>> }

LegacyIdle ==
    legacy_adv = [state |-> "idle", packet |-> NoPacket, scan_response_packet |-> NoPacket,
              op |-> "none", raised |-> "none", name |-> <<>>, before |-> <<>>,
              scan_response_before |-> NoPacket, calls |-> 0]

LegacyStart ==
    \E flags \in {0, 2}, tx_power \in {<<>>, <<0>>} :
        legacy_adv = LegacyAdvertisement_init(flags, tx_power)

AddUuids ==
    /\ legacy_adv.state = "live"
    /\ legacy_adv.calls < MaxLegacyOps
    /\ \E uuids \in LegacyUuidLists :
           legacy_adv' = add_uuids(legacy_adv, uuids, ALL_16_BIT_SERVICE_UUIDS,
                               ALL_128_BIT_SERVICE_UUIDS)
    /\ UNCHANGED <<codecVars, advVars, bindVars, streamVars, packetVars, valueVars, connectionVars, radioVars, entryVars, timeclientVars>>

AddName ==
    /\ legacy_adv.state = "live"
    /\ legacy_adv.calls < MaxLegacyOps
    /\ \E name \in LegacyNames : legacy_adv' = add_name(legacy_adv, name)
    /\ UNCHANGED <<codecVars, advVars, bindVars, streamVars, packetVars, valueVars, connectionVars, radioVars, entryVars, timeclientVars>>

NextLegacy == AddUuids \/ AddName

(***************************************************************************)
(* ScanEntry of scanner.py: the lookup of one element type in the bytes of *)
(* a received advertisement, and the same lookup of AdvertisingPacket.     *)
(* A result is <<"bytes", value>> or <<"None">>.                           *)
(***************************************************************************)
MaxItems == 2          \* lookups on one ScanEntry

\* the while loop of ScanEntry.item and of AdvertisingPacket.__getitem__
\* (scanner.py:105-113, advertising.py:118-126); i is the 0-based offset
RECURSIVE item_loop(_, _, _)
item_loop(adv_bytes, item_type, i) ==
    IF ~(i < Len(adv_bytes)) THEN [raised |-> "none", ret |-> <<"None">>]
    ELSE LET item_length == adv_bytes[i + 1]
         IN  \* adv_bytes[i+1] on the last byte raises IndexError
             IF i + 1 >= Len(adv_bytes) THEN [raised |-> "IndexError", ret |-> <<"None">>]
             ELSE IF item_type # adv_bytes[i + 2]
             THEN item_loop(adv_bytes, item_type, i + item_length + 1)
             ELSE [raised |-> "none",
                   ret |-> <<"bytes", Slice(adv_bytes, i + 2, i + 1 + item_length)>>]

\* ScanEntry.item(item_type)
ScanEntry_item(adv_bytes, item_type) == item_loop(adv_bytes, item_type, 0)

\* AdvertisingPacket(adv_bytes).get(element_type): the constructor checks the
\* length, __getitem__ raises KeyError where item returns None and get turns
\* the KeyError into the default None
AdvertisingPacket_get(adv_bytes, element_type) ==
    IF check_length(adv_bytes, MAX_DATA_SIZE) # "none"
    THEN [raised |-> "IndexError", ret |-> <<"None">>]
    ELSE item_loop(adv_bytes, element_type, 0)

NewScanEntry(state, advertisement_bytes) ==
    [state |-> state, advertisement_bytes |-> advertisement_bytes, op |-> "none",
     item_type |-> 0, raised |-> "none", ret |-> <<"None">>, calls |-> 0]

\* received bytes: every string over 0..3 up to MaxLen, the worked example, an
\* advertisement padded with zeros and one of 32 bytes
ReceivedBytes ==
    SeqsUpTo(PacketBytes, MaxLen)
        \cup {ExamplePacket, <<2, 1, 6, 0>>, <<2, 1, 6, 3, 9, 65, 66, 0, 0>>,
              Run(1, <<6>>) \o Run(9, Fill(27, 65))}
ItemTypes == {0, 1, 2, 3, ADT_COMPLETE_NAME}

EntryIdle == scanned = NewScanEntry("idle", <<>>)

EntryStart == \E bs \in ReceivedBytes : scanned = NewScanEntry("live", bs)

Item ==
    /\ scanned.state = "live"
    /\ scanned.calls < MaxItems
    /\ \E t \in ItemTypes :
          LET r == ScanEntry_item(scanned.advertisement_bytes, t)
          IN  scanned' = [scanned EXCEPT !.op = "item", !.item_type = t,
                                         !.raised = r.raised, !.ret = r.ret,
                                         !.calls = @ + 1]
    /\ UNCHANGED <<codecVars, advVars, bindVars, streamVars, packetVars, valueVars, connectionVars, radioVars, legacyVars, timeclientVars>>

PacketGet ==
    /\ scanned.state = "live"
    /\ scanned.calls < MaxItems
    /\ \E t \in ItemTypes :
          LET r == AdvertisingPacket_get(scanned.advertisement_bytes, t)
          IN  scanned' = [scanned EXCEPT !.op = "get", !.item_type = t,
                                         !.raised = r.raised, !.ret = r.ret,
                                         !.calls = @ + 1]
    /\ UNCHANGED <<codecVars, advVars, bindVars, streamVars, packetVars, valueVars, connectionVars, radioVars, legacyVars, timeclientVars>>

NextEntry == Item \/ PacketGet

(***************************************************************************)
(* CurrentTimeClient of current_time_client.py: a peripheral that reads    *)
(* the Current Time Service of the central connected to it.  conn numbers  *)
(* the connections, peer is what the connected central offers, paired      *)
(* whether pairing succeeded on the current connection.  A characteristic  *)
(* is [uuid, conn], conn the connection it was discovered on; NoChar is    *)
(* None.  read is the characteristic whose value the last call read from   *)
(* the peer (a value of the size struct.unpack expects).                   *)
(***************************************************************************)
MaxTimeReads == 3      \* property reads on one CurrentTimeClient
MaxConnections == 2    \* connections of centrals, one after the other

CURRENT_TIME_UUID == 10795              \* 0x2A2B
LOCAL_TIME_INFORMATION_UUID == 10767    \* 0x2A0F

NoChar == [uuid |-> 0, conn |-> 0]
NoPeer == [service |-> FALSE, characteristics |-> {}]

\* CurrentTimeClient.__init__
NewCurrentTimeClient(state) ==
    [state |-> state, connected |-> FALSE, conn |-> 0, peer |-> NoPeer, paired |-> FALSE,
     current_time_char |-> NoChar, local_time_char |-> NoChar,
     op |-> "none", raised |-> "none", read |-> NoChar, calls |-> 0]

\* CurrentTimeClient._discover: [c, raised]
discover(c) ==
    IF ~c.peer.service THEN [c |-> c, raised |-> "OSError: Unable to discover service"]
    ELSE LET c1 == IF CURRENT_TIME_UUID \in c.peer.characteristics
                   THEN [c EXCEPT !.current_time_char =
                                      [uuid |-> CURRENT_TIME_UUID, conn |-> c.conn]]
                   ELSE c
             c2 == IF LOCAL_TIME_INFORMATION_UUID \in c.peer.characteristics
                   THEN [c1 EXCEPT !.local_time_char =
                                       [uuid |-> LOCAL_TIME_INFORMATION_UUID, conn |-> c.conn]]
                   ELSE c1
         IN  IF c2.current_time_char = NoChar \/ c2.local_time_char = NoChar
             THEN [c |-> c2, raised |-> "OSError: Remote service missing needed characteristic"]
             ELSE [c |-> c2, raised |-> "none"]

\* CurrentTimeClient._check_connected: [c, raised]; pair_ok is whether the
\* central accepts the pairing request when Peripheral.pair() is called
check_connected(c, pair_ok) ==
    IF ~c.connected THEN [c |-> c, raised |-> "OSError: Not connected"]
    ELSE IF c.current_time_char = NoChar
    THEN LET d == discover(c)
         IN  IF d.raised # "none" THEN d
             ELSE IF pair_ok THEN [c |-> [d.c EXCEPT !.paired = TRUE], raised |-> "none"]
             ELSE [c |-> d.c, raised |-> "pairing failed"]
    ELSE [c |-> c, raised |-> "none"]

\* the outcome of a property read recorded on the client
TimeRead(c, op, exc, char) ==
    [c EXCEPT !.op = op, !.raised = exc, !.read = char, !.calls = @ + 1]

\* CurrentTimeClient.current_time
current_time(c, pair_ok) ==
    LET k == check_connected(c, pair_ok)
    IN  IF k.raised # "none" THEN TimeRead(k.c, "current_time", k.raised, NoChar)
        ELSE IF k.c.current_time_char # NoChar
        THEN TimeRead(k.c, "current_time", "none", k.c.current_time_char)
        ELSE TimeRead(k.c, "current_time", "OSError: Characteristic not discovered", NoChar)

\* CurrentTimeClient.local_time_information
local_time_information(c, pair_ok) ==
    LET k == check_connected(c, pair_ok)
    IN  IF k.raised # "none" THEN TimeRead(k.c, "local_time_information", k.raised, NoChar)
        ELSE IF k.c.local_time_char # NoChar
        THEN TimeRead(k.c, "local_time_information", "none", k.c.local_time_char)
        ELSE TimeRead(k.c, "local_time_information",
                      "OSError: Characteristic not discovered", NoChar)

\* what a central may offer: no Current Time Service, or one with some of the
\* two characteristics
TimePeers ==
    {NoPeer} \cup {[service |-> TRUE, characteristics |-> cs] :
                      cs \in SUBSET {CURRENT_TIME_UUID, LOCAL_TIME_INFORMATION_UUID}}

TimeClientIdle == time_client = NewCurrentTimeClient("idle")

TimeClientStart == time_client = NewCurrentTimeClient("live")

\* a central connects to the advertising peripheral
CentralConnects ==
    /\ time_client.state = "live"
    /\ ~time_client.connected
    /\ time_client.conn < MaxConnections
    /\ \E peer \in TimePeers :
           time_client' = [time_client EXCEPT !.connected = TRUE, !.conn = @ + 1,
                                              !.peer = peer, !.paired = FALSE,
                                              !.op = "connect", !.raised = "none",
                                              !.read = NoChar]
    /\ UNCHANGED <<codecVars, advVars, bindVars, streamVars, packetVars, valueVars, connectionVars, radioVars, legacyVars, entryVars>>

\* CurrentTimeClient.disconnect, or the central goes away
Disconnect ==
    /\ time_client.state = "live"
    /\ time_client.connected
    /\ time_client' = [time_client EXCEPT !.connected = FALSE, !.peer = NoPeer,
                                          !.paired = FALSE, !.op = "disconnect",
                                          !.raised = "none", !.read = NoChar]
    /\ UNCHANGED <<codecVars, advVars, bindVars, streamVars, packetVars, valueVars, connectionVars, radioVars, legacyVars, entryVars>>

CurrentTime ==
    /\ time_client.state = "live"
    /\ time_client.calls < MaxTimeReads
    /\ \E pair_ok \in BOOLEAN : time_client' = current_time(time_client, pair_ok)
    /\ UNCHANGED <<codecVars, advVars, bindVars, streamVars, packetVars, valueVars, connectionVars, radioVars, legacyVars, entryVars>>

LocalTimeInformation ==
    /\ time_client.state = "live"
    /\ time_client.calls < MaxTimeReads
    /\ \E pair_ok \in BOOLEAN : time_client' = local_time_information(time_client, pair_ok)
    /\ UNCHANGED <<codecVars, advVars, bindVars, streamVars, packetVars, valueVars, connectionVars, radioVars, legacyVars, entryVars>>

NextTimeClient == CentralConnects \/ Disconnect \/ CurrentTime \/ LocalTimeInformation

(***************************************************************************)
(* Specifications: one per part of the library, and the whole.             *)
(***************************************************************************)
InitCodec == CodecStart /\ AdvIdle /\ BindIdle /\ StreamIdle /\ PacketIdle /\ ValueIdle /\ ConnectionIdle /\ RadioIdle /\ LegacyIdle /\ EntryIdle /\ TimeClientIdle
InitAdv == CodecIdle /\ AdvStart /\ BindIdle /\ StreamIdle /\ PacketIdle /\ ValueIdle /\ ConnectionIdle /\ RadioIdle /\ LegacyIdle /\ EntryIdle /\ TimeClientIdle
InitBind == CodecIdle /\ AdvIdle /\ BindStart /\ StreamIdle /\ PacketIdle /\ ValueIdle /\ ConnectionIdle /\ RadioIdle /\ LegacyIdle /\ EntryIdle /\ TimeClientIdle
InitStream == CodecIdle /\ AdvIdle /\ BindIdle /\ StreamStart /\ PacketIdle /\ ValueIdle /\ ConnectionIdle /\ RadioIdle /\ LegacyIdle /\ EntryIdle /\ TimeClientIdle
InitPacket == CodecIdle /\ AdvIdle /\ BindIdle /\ StreamIdle /\ PacketStart /\ ValueIdle /\ ConnectionIdle /\ RadioIdle /\ LegacyIdle /\ EntryIdle /\ TimeClientIdle
InitValue == CodecIdle /\ AdvIdle /\ BindIdle /\ StreamIdle /\ PacketIdle /\ ValueStart /\ ConnectionIdle /\ RadioIdle /\ LegacyIdle /\ EntryIdle /\ TimeClientIdle
InitConnection == CodecIdle /\ AdvIdle /\ BindIdle /\ StreamIdle /\ PacketIdle /\ ValueIdle /\ ConnectionStart /\ RadioIdle /\ LegacyIdle /\ EntryIdle /\ TimeClientIdle
InitRadio == CodecIdle /\ AdvIdle /\ BindIdle /\ StreamIdle /\ PacketIdle /\ ValueIdle /\ ConnectionIdle /\ RadioStart /\ LegacyIdle /\ EntryIdle /\ TimeClientIdle
InitLegacy == CodecIdle /\ AdvIdle /\ BindIdle /\ StreamIdle /\ PacketIdle /\ ValueIdle /\ ConnectionIdle /\ RadioIdle /\ LegacyStart /\ EntryIdle /\ TimeClientIdle
InitEntry == CodecIdle /\ AdvIdle /\ BindIdle /\ StreamIdle /\ PacketIdle /\ ValueIdle /\ ConnectionIdle /\ RadioIdle /\ LegacyIdle /\ EntryStart /\ TimeClientIdle
InitTimeClient == CodecIdle /\ AdvIdle /\ BindIdle /\ StreamIdle /\ PacketIdle /\ ValueIdle /\ ConnectionIdle /\ RadioIdle /\ LegacyIdle /\ EntryIdle /\ TimeClientStart

SpecCodec == InitCodec /\ [][NextCodec]_vars
SpecAdv == InitAdv /\ [][NextAdv]_vars
SpecCodecAdv == (InitCodec \/ InitAdv) /\ [][NextCodec \/ NextAdv]_vars
SpecBind == InitBind /\ [][NextBind]_vars
SpecStream == InitStream /\ [][NextStream]_vars
SpecPacket == InitPacket /\ [][NextPacket]_vars
SpecValue == InitValue /\ [][NextValue]_vars
SpecConnection == InitConnection /\ [][NextConnection]_vars
SpecRadio == InitRadio /\ [][NextRadio]_vars
SpecLegacy == InitLegacy /\ [][NextLegacy]_vars
SpecEntry == InitEntry /\ [][NextEntry]_vars
SpecTimeClient == InitTimeClient /\ [][NextTimeClient]_vars

Init == InitCodec \/ InitAdv \/ InitBind \/ InitStream \/ InitPacket \/ InitValue \/ InitConnection \/ InitRadio \/ InitLegacy \/ InitEntry \/ InitTimeClient
Next == NextCodec \/ NextAdv \/ NextBind \/ NextStream \/ NextPacket \/ NextValue \/ NextConnection \/ NextRadio \/ NextLegacy \/ NextEntry \/ NextTimeClient
Spec == Init /\ [][Next]_vars

(***************************************************************************)
(* Properties.                                                             *)
(***************************************************************************)
\* bs is a concatenation of complete runs [L][type][value] with 1 <= L <= 255
RECURSIVE WellFormedRuns(_)
WellFormedRuns(bs) ==
    \/ bs = <<>>
    \/ /\ Len(bs) >= 2
       /\ bs[1] >= 1 /\ bs[1] <= 255
       /\ Len(bs) >= 1 + bs[1]
       /\ WellFormedRuns(SubSeq(bs, 2 + bs[1], Len(bs)))

\* the type bytes of the runs of a well-formed bs, in order
RECURSIVE RunTypes(_)
RunTypes(bs) ==
    IF bs = <<>> THEN <<>> ELSE <<bs[2]>> \o RunTypes(SubSeq(bs, 2 + bs[1], Len(bs)))

NoDuplicates(seq) == \A i, j \in 1 .. Len(seq) : i # j => seq[i] # seq[j]

WellFormedDistinct(bs) == WellFormedRuns(bs) /\ NoDuplicates(RunTypes(bs))

\* C1: a packet of well-formed runs with pairwise distinct types decodes without
\* an error and encodes back to exactly the same bytes, runs in the original order
C1_RoundTrip ==
    (key_size = 1 /\ WellFormedDistinct(data)) =>
        /\ cpc = "decoded" => ~dec.raised
        /\ cpc = "encoded" => ~enc.raised /\ enc.bytes = data

\* C1 witness: the worked example 02 01 06 03 09 41 42 has been decoded to
\* {0x01: 06, 0x09: "AB"} and encoded back
C1_Witness ==
    /\ cpc = "encoded" /\ key_size = 1 /\ data = ExamplePacket
    /\ dec.dict = <<BytesEntry(1, <<6>>), BytesEntry(9, <<65, 66>>)>>
    /\ enc.bytes = ExamplePacket

\* every run of d fits the one-byte length field (so does the data of a
\* ManufacturerData value)
RECURSIVE FitsLengthByte(_, _)
FitsLengthByte(d, ks) ==
    \A i \in 1 .. Len(d) :
        /\ ks + ValueSize(d[i]) <= 255
        /\ d[i].kind = "mfg" => FitsLengthByte(d[i].sub, d[i].sub_ks)

AdvLen == compute_length(adv.data_dict, 1)     \* len(advertisement)
AdvBytes == encode_data(adv.data_dict, 1)      \* bytes(advertisement)

\* C2 (as stated): compute_length(d) = len(encode_data(d)) for every dictionary, and
\* len(advertisement) = len(bytes(advertisement)) after any accessor writes
C2_LengthAsStated ==
    /\ cpc = "encoded" => ~enc.raised /\ Len(enc.bytes) = clen
    /\ adv.cls # "none" => ~AdvBytes.raised /\ Len(AdvBytes.bytes) = AdvLen

\* C2 (amended): the two lengths agree whenever every run fits the one-byte length
\* field, for key widths 1 and 2; otherwise encode_data raises
C2_Length ==
    /\ cpc = "encoded" =>
          IF FitsLengthByte(dec.dict, key_size)
          THEN ~enc.raised /\ Len(enc.bytes) = clen
          ELSE enc.raised
    /\ adv.cls # "none" =>
          IF FitsLengthByte(adv.data_dict, 1)
          THEN ~AdvBytes.raised /\ Len(AdvBytes.bytes) = AdvLen
          ELSE AdvBytes.raised

\* C2 witness: an outgoing advertisement after a manufacturer-data write and a name
\* write, whose encoded length is its computed length
C2_Witness ==
    /\ adv.mutable /\ adv.op = "ManufacturerDataField.__set__" /\ adv.raised = "none"
    /\ HasKey(adv.data_dict, ADT_COMPLETE_NAME)
    /\ ~AdvBytes.raised /\ Len(AdvBytes.bytes) = AdvLen /\ AdvLen > 10

FieldWrites == {"String.__set__", "Struct.__set__", "ManufacturerDataField.__set__",
                "ServiceData.__set__"}

\* C3: on an Advertisement built from a scan entry every field assignment raises and
\* leaves data_dict unchanged
C3_ImmutableRefusesWrites ==
    [][(adv.cls # "none" /\ ~adv.mutable /\ adv_steps' = adv_steps + 1
        /\ adv'.op \in FieldWrites)
       => (adv'.raised # "none" /\ adv'.data_dict = adv.data_dict)]_vars

\* C4: after an assignment to a field of an outgoing Advertisement returned normally
\* the encoded length is at most 31
C4_OverflowRaises ==
    (adv.cls # "none" /\ adv.mutable /\ adv.op \in {"String.__set__", "Struct.__set__"}
     /\ adv.raised = "none")
    => AdvLen <= MAX_PACKET

Count(seq, x) == Cardinality({i \in 1 .. Len(seq) : seq[i] = x})

\* the step is an attribute access on the Service
IsAccess == bind_steps' = bind_steps + 1
\* the peer's characteristic list holds a characteristic with the uuid declared for n
OnPeer(s, n) == \E i \in 1 .. Len(s.characteristics) : s.characteristics[i].uuid = AttrUuid(n)
\* n is a Characteristic with a stored handle
HandleStored(s, n) == KindOf(s.cls, n) = "Characteristic" /\ HasKey(s.bleio_characteristics, n)
\* n is a ComplexCharacteristic whose bound object is the instance attribute
WrapperStored(s, n) ==
    /\ KindOf(s.cls, n) = "ComplexCharacteristic"
    /\ HasKey(s.attrs, n) /\ s.attrs[IndexOf(s.attrs, n)].bound
NoRadioCall == the_service'.adds = the_service.adds /\ the_service'.searches = the_service.searches

\* at most one add_to_service per attribute; at most one search per attribute that the
\* peer's list can bind
BoundAtMostOnce ==
    the_service.state = "constructed" =>
        \A n \in Declared(the_service.cls) :
            /\ Count(the_service.adds, n) <= 1
            /\ (the_service.remote /\ OnPeer(the_service, n)) => Count(the_service.searches, n) <= 1

\* an access to a Characteristic with a stored handle uses that handle
ReusesHandle(n) ==
    (IsAccess /\ bind_op'.name = n /\ HandleStored(the_service, n)) =>
        /\ bind_op'.raised = "none"
        /\ bind_op'.handle = the_service.bleio_characteristics[
                                 IndexOf(the_service.bleio_characteristics, n)].handle
        /\ the_service'.bleio_characteristics = the_service.bleio_characteristics
        /\ NoRadioCall

\* a read of a ComplexCharacteristic whose bound object is stored returns that object
ReadReusesWrapper(n) ==
    (IsAccess /\ bind_op'.name = n /\ WrapperStored(the_service, n) /\ bind_op'.op # "setattr") =>
        /\ bind_op'.raised = "none" /\ bind_op'.wrapper
        /\ bind_op'.handle = the_service.attrs[IndexOf(the_service.attrs, n)].handle
        /\ the_service'.attrs = the_service.attrs
        /\ NoRadioCall

\* a write of a ComplexCharacteristic whose bound object is stored keeps that object
WriteKeepsWrapper(n) ==
    (IsAccess /\ bind_op'.name = n /\ WrapperStored(the_service, n) /\ bind_op'.op = "setattr") =>
        /\ the_service'.attrs = the_service.attrs
        /\ NoRadioCall

\* a write of a ComplexCharacteristic whose bound object is stored puts the written
\* value in its place, without a radio call
WriteReplacesWrapper(n) ==
    (IsAccess /\ bind_op'.name = n /\ WrapperStored(the_service, n) /\ bind_op'.op = "setattr") =>
        /\ the_service'.attrs =
              [the_service.attrs EXCEPT ![IndexOf(the_service.attrs, n)] =
                  PlainValue(n, bind_op'.value)]
        /\ NoRadioCall

\* C5 (as stated): add_to_service, or the search of the peer's list, happens at most
\* once per attribute that binds, and every later read or write of a bound attribute
\* uses the same handle or bound object
C5_BindOnceAsStated ==
    /\ []BoundAtMostOnce
    /\ [][\A n \in AttrNames :
             ReusesHandle(n) /\ ReadReusesWrapper(n) /\ WriteKeepsWrapper(n)]_vars

\* C5 (amended): the binding happens at most once; a Characteristic's handle is used
\* by every later read and write; a ComplexCharacteristic's bound object is returned
\* by later reads until the attribute is assigned, and an assignment replaces it
C5_BindOnce ==
    /\ []BoundAtMostOnce
    /\ [][\A n \in AttrNames :
             ReusesHandle(n) /\ ReadReusesWrapper(n) /\ WriteReplacesWrapper(n)]_vars

\* C5 witness: a local Service after a second use of a Characteristic, still added
\* once, and after an assignment has replaced a ComplexCharacteristic's bound object
C5_Witness ==
    /\ the_service.state = "constructed" /\ ~the_service.remote
    /\ bind_op.op = "Characteristic.__get__" /\ bind_op.handle > 0
    /\ Count(the_service.adds, bind_op.name) = 1
    /\ \E m \in Declared(the_service.cls) :
          /\ Count(the_service.adds, m) = 1
          /\ HasKey(the_service.attrs, m) /\ ~the_service.attrs[IndexOf(the_service.attrs, m)].bound

LocalConstructed == the_service.state = "constructed" /\ ~the_service.remote

LookupFailed(s, n) == s.remote /\ Count(s.searches, n) > 0 /\ ~OnPeer(s, n)

WriteLengths == [i \in 1 .. Len(stream.writes) |-> Len(stream.writes[i])]

\* C8: write(buf) makes ceil(len(buf)/20) writes, in increasing offset order, each of
\* at most 20 bytes and all but the last of exactly 20, whose concatenation is buf;
\* an empty buf makes none
C8_ChunkedWrite ==
    /\ stream.pc \in {"loop", "done"} =>
          /\ \A i \in 1 .. Len(stream.writes) :
                stream.writes[i] = SubSeq(stream.buf, ChunkSize * (i - 1) + 1,
                                          Min(ChunkSize * i, Len(stream.buf)))
          /\ \A i \in 1 .. Len(stream.writes) : WriteLengths[i] >= 1 /\ WriteLengths[i] <= ChunkSize
    /\ stream.pc = "done" =>
          /\ Len(stream.writes) = (Len(stream.buf) + ChunkSize - 1) \div ChunkSize
          /\ \A i \in 1 .. Len(stream.writes) - 1 : WriteLengths[i] = ChunkSize
          /\ Concat(stream.writes) = stream.buf
          /\ stream.buf = <<>> => stream.writes = <<>>

\* C8 witness: a 45-byte buffer has been written as 20, 20 and 5 bytes
C8_Witness ==
    /\ stream.pc = "done" /\ Len(stream.buf) = 45
    /\ WriteLengths = <<20, 20, 5>>
    /\ Concat(stream.writes) = stream.buf

\* the UUIDs serialized under adt, of width w
SerializedUuids(d, adt, w) ==
    IF ~HasKey(d, adt) \/ d[IndexOf(d, adt)].kind # "bytes" THEN <<>>
    ELSE LET bs == d[IndexOf(d, adt)].vals[1]
         IN  [i \in 1 .. Len(bs) \div w |-> SubSeq(bs, w * (i - 1) + 1, w * i)]

\* C9: no service UUID occurs twice in the service list or in its serialized entry
C9_NoDuplicateServices ==
    (adv.cls \in ListClasses /\ adv.lists.bound) =>
        /\ NoDuplicates(adv.lists.standard)
        /\ NoDuplicates(adv.lists.vendor)
        /\ NoDuplicates(SerializedUuids(adv.data_dict, StandardServiceFields(adv.cls)[1], 2))
        /\ NoDuplicates(SerializedUuids(adv.data_dict, VendorServiceFields(adv.cls)[1], 16))

\* C10: decode_data never raises, whatever the input bytes
C10_DecodeNeverRaises == cpc \in {"decoded", "encoded"} => ~dec.raised

FieldReads == {"String.__get__", "Struct.__get__"}

\* C11: reading a String or Struct field whose type is absent from data_dict, or a
\* lazy composite field of a received Advertisement whose type is absent, returns
\* None and leaves data_dict unchanged, on every call
C11_AbsentReadsNone ==
    [][(/\ adv.cls # "none" /\ adv_steps' = adv_steps + 1
        /\ ~HasKey(adv.data_dict, adv'.adt)
        /\ \/ adv'.op \in FieldReads
           \/ adv'.op = "LazyObjectField.__get__" /\ ~adv.mutable)
       => (/\ adv'.raised = "none" /\ adv'.ret = <<"None">>
           /\ adv'.data_dict = adv.data_dict)]_vars

\* C11 witness: a received Advertisement without a flags entry whose flags have been
\* read, not for the first operation, and came back as None
C11_Witness ==
    /\ adv.cls # "none" /\ ~adv.mutable /\ adv_steps >= 2
    /\ adv.op = "LazyObjectField.__get__" /\ adv.adt = ADT_FLAGS
    /\ adv.ret = <<"None">> /\ ~HasKey(adv.data_dict, ADT_FLAGS)

\* C12: add_field on a packet of length n with maximum m returns normally when
\* n + 2 + len(data) <= m and raises IndexError otherwise
C12_AddFieldIffFits ==
    packet.op = "add_field" =>
        IF packet.length + 2 + packet.field_len <= packet.max_length
        THEN packet.raised = "none"
        ELSE packet.raised = "IndexError"

\* C12 as amended: for field data of at most 254 bytes add_field returns normally
\* when n + 2 + len(data) <= m and raises IndexError otherwise; for longer field
\* data it raises ValueError, whatever n and m are, and leaves the packet as it was
C12_AddField ==
    packet.op = "add_field" =>
        IF packet.field_len >= 255
        THEN packet.raised = "ValueError" /\ Len(packet.packet_bytes) = packet.length
        ELSE IF packet.length + 2 + packet.field_len <= packet.max_length
        THEN packet.raised = "none"
        ELSE packet.raised = "IndexError"

\* C12 witness: a second add_field has filled a packet to exactly MAX_DATA_SIZE
\* bytes and returned
C12_Witness ==
    /\ packet.op = "add_field" /\ packet.calls = 2 /\ packet.raised = "none"
    /\ packet.max_length = MAX_DATA_SIZE /\ packet.length > 0
    /\ packet.length + 2 + packet.field_len = MAX_DATA_SIZE
    /\ Len(packet.packet_bytes) = MAX_DATA_SIZE

\* C13: constructing a Service with a service handle whose remote flag is false
\* raises ValueError before _bleio.Service is called, before any characteristic is
\* added or looked up and before any attribute of the instance is set
C13_LocalHandleRefused ==
    (the_service.arg = "local" /\ the_service.state # "new") =>
        /\ the_service.state = "failed"
        /\ bind_op.op = "Service.__init__" /\ bind_op.raised = "ValueError"
        /\ the_service.bleio_service = "none"
        /\ the_service.adds = <<>> /\ the_service.searches = <<>>
        /\ the_service.bleio_characteristics = <<>> /\ the_service.attrs = <<>>
        /\ the_service.field_names = {}

\* C13 witness: a Service class declaring two characteristics was instantiated
\* with a local service handle and the constructor raised
C13_Witness ==
    /\ the_service.arg = "local" /\ the_service.state = "failed"
    /\ Cardinality(Declared(the_service.cls)) = 2
    /\ bind_op.raised = "ValueError"

\* C14: reading a StructCharacteristic, IntCharacteristic or FloatCharacteristic
\* whose stored raw value is shorter than the packed size of its format returns
\* None and does not raise
C14_ShortReadsNone ==
    (/\ the_characteristic.op = "__get__" /\ the_characteristic.kind \in StructKinds
     /\ the_characteristic.bound
     /\ Len(the_characteristic.value) < the_characteristic.expected_size)
    => (the_characteristic.raised = "none" /\ the_characteristic.ret = <<"None">>)

\* C15: assigning an IntCharacteristic a value below min_value or above max_value
\* raises ValueError and has no effect: nothing is written to the characteristic,
\* nothing is added to the service and the binding stays as it was
C15_OutOfRangeRefused ==
    [][(/\ the_characteristic.kind = "IntCharacteristic"
        /\ the_characteristic'.calls = the_characteristic.calls + 1
        /\ the_characteristic'.op = "__set__"
        /\ \/ the_characteristic'.arg[1] < the_characteristic.min_value
           \/ the_characteristic'.arg[1] > the_characteristic.max_value)
       => (/\ the_characteristic'.raised = "ValueError"
           /\ the_characteristic'.value = the_characteristic.value
           /\ the_characteristic'.bound = the_characteristic.bound
           /\ the_characteristic'.adds = the_characteristic.adds
           /\ the_characteristic'.writes = the_characteristic.writes)]_vars

\* C15 witness: 101 was assigned to an unbound 16-bit IntCharacteristic declared
\* with the range 1..100 on a local service; the assignment raised and the
\* characteristic is still unbound
C15_Witness ==
    /\ the_characteristic.kind = "IntCharacteristic"
    /\ the_characteristic.struct_format = "<H" /\ the_characteristic.max_value = 100
    /\ the_characteristic.op = "__set__" /\ the_characteristic.arg = <<101>>
    /\ the_characteristic.raised = "ValueError"
    /\ ~the_characteristic.remote /\ ~the_characteristic.bound
    /\ the_characteristic.adds = 0 /\ the_characteristic.writes = 0

\* C18: once a FixedStringCharacteristic is bound, no assignment changes the
\* value stored in its characteristic
C18_FixedStringUnchanged ==
    [][(/\ the_characteristic.kind = "FixedStringCharacteristic"
        /\ the_characteristic.bound)
       => the_characteristic'.value = the_characteristic.value]_vars

\* the Service object constructed on the connection for a uuid, 0 when none was
ConstructedFor(uuid) ==
    LET at == {i \in 1 .. Len(connection.constructed_services) :
                 connection.constructed_services[i].uuid = uuid}
    IN  IF at = {} THEN 0 ELSE connection.constructed_services[CHOOSE i \in at : TRUE].id

RequestedTypes ==
    IF radio.given_types = <<>> THEN {"Advertisement"}
    ELSE {radio.given_types[i] : i \in 1 .. Len(radio.given_types)}

\* C16: every advertisement start_scan yields is of one of the requested types
\* (Advertisement when none was given), that type matches the entry it was built
\* from, and the entry is one the adapter delivered; so an entry that matches
\* none of the requested types is never yielded
C16_YieldsRequestedTypes ==
    \A i \in 1 .. Len(radio.yielded) :
        /\ radio.yielded[i].cls \in RequestedTypes
        /\ matches(radio.yielded[i].cls, radio.yielded[i].entry)
        /\ \E j \in 1 .. Len(radio.entries) : radio.entries[j] = radio.yielded[i].entry

\* C16 witness: a scan for two types, neither of them Advertisement, has seen two
\* entries, skipped one and yielded a ProvideServicesAdvertisement for the other
C16_Witness ==
    /\ Len(radio.given_types) = 2 /\ "Advertisement" \notin RequestedTypes
    /\ Len(radio.entries) = 2 /\ Len(radio.yielded) = 1
    /\ radio.yielded[1].cls = "ProvideServicesAdvertisement"
    /\ \E j \in 1 .. 2 : \A cls \in RequestedTypes : ~matches(cls, radio.entries[j])

\* bytes of the generated scan response: complete_name = radio.name, tx_power = 0
GeneratedScanResponse ==
    <<1 + Len(Utf8Encode(radio.name)), ADT_COMPLETE_NAME>> \o Utf8Encode(radio.name)
        \o <<2, ADT_TX_POWER, 0>>

RECURSIVE RunValues(_)
RunValues(bs) ==
    IF bs = <<>> THEN <<>>
    ELSE <<SubSeq(bs, 3, 1 + bs[1])>> \o RunValues(SubSeq(bs, 2 + bs[1], Len(bs)))

\* the values of the runs of type t, in wire order
ValuesOfType(bs, t) ==
    LET at == SelectSeq([i \in 1 .. Len(RunTypes(bs)) |-> i], LAMBDA i : RunTypes(bs)[i] = t)
    IN  [k \in 1 .. Len(at) |-> RunValues(bs)[at[k]]]

\* C20: decode_data of a packet of well-formed runs stores a type that occurs
\* once as a single byte string and a type that occurs k >= 2 times as the list
\* of its k values in wire order; it stores no other type
C20_RepeatsBecomeLists ==
    (cpc \in {"decoded", "encoded"} /\ key_size = 1 /\ WellFormedRuns(data)) =>
        /\ ~dec.raised
        /\ \A i \in 1 .. Len(dec.dict) :
              LET values == ValuesOfType(data, dec.dict[i].key)
              IN  /\ Len(values) >= 1
                  /\ IF Len(values) = 1
                     THEN dec.dict[i].kind = "bytes" /\ dec.dict[i].vals = <<values[1]>>
                     ELSE dec.dict[i].kind = "list" /\ dec.dict[i].vals = values
        /\ \A j \in 1 .. Len(RunTypes(data)) : HasKey(dec.dict, RunTypes(data)[j])

\* C20 witness: a packet with three runs of type 0x09 was decoded to one entry
\* holding the list of the three values in wire order
C20_Witness ==
    /\ cpc = "decoded" /\ key_size = 1
    /\ data = Run(9, Fill(126, 65)) \o Run(9, Fill(126, 66)) \o Run(9, <<67, 68>>)
    /\ dec.dict = <<Entry(9, "list", <<Fill(126, 65), Fill(126, 66), <<67, 68>>>>)>>


\* the 0-based offset at which encode_data writes the run of entry n of d
RECURSIVE EntryOffset(_, _, _)
EntryOffset(d, ks, n) ==
    IF n = 1 THEN 0 ELSE EntryOffset(d, ks, n - 1) + 1 + ks + ValueSize(d[n - 1])

HasListEntry(d) == \E n \in 1 .. Len(d) : d[n].kind = "list"

\* the run of every list entry of dec.dict in enc.bytes is one run
\* [key width + total length][key][concatenation in list order], and decoding
\* enc.bytes gives every key once, a repeated type as the concatenated bytes
Coalesced ==
    /\ ~enc.raised
    /\ \A n \in 1 .. Len(dec.dict) :
          dec.dict[n].kind = "list" =>
              LET off == EntryOffset(dec.dict, key_size, n)
                  total == SumLen(dec.dict[n].vals)
              IN  /\ Len(enc.bytes) >= off + 1 + key_size + total
                  /\ enc.bytes[off + 1] = key_size + total
                  /\ SubSeq(enc.bytes, off + 2, off + 1 + key_size)
                        = LEBytes(dec.dict[n].key, key_size)
                  /\ SubSeq(enc.bytes, off + 2 + key_size, off + 1 + key_size + total)
                        = Concat(dec.dict[n].vals)
    /\ LET again == decode_data(enc.bytes, key_size)
       IN  /\ ~again.raised
           /\ Len(again.dict) = Len(dec.dict)
           /\ \A n \in 1 .. Len(dec.dict) :
                 dec.dict[n].kind = "list" =>
                     again.dict[n] = BytesEntry(dec.dict[n].key, Concat(dec.dict[n].vals))

\* C21 (as stated): for every packet that decodes with a repeated type,
\* encode_data writes the list as one run (length byte = key width + total
\* length, value = concatenation in list order) and decoding the result gives
\* that type as one concatenated byte string
C21_CoalescedAsStated ==
    (cpc = "encoded" /\ HasListEntry(dec.dict)) => Coalesced

\* C21 (amended): the same whenever key width + total length of every entry is
\* at most 255; otherwise encode_data raises and there is nothing to decode
C21_Coalesced ==
    (cpc = "encoded" /\ HasListEntry(dec.dict)) =>
        IF FitsLengthByte(dec.dict, key_size) THEN Coalesced ELSE enc.raised

\* C21 witness: three runs of type 0x09 holding 126, 126 and 2 bytes were decoded
\* to one list and encoded to the single run of length byte 255, which decodes
\* to one byte string of 254 bytes
C21_Witness ==
    /\ cpc = "encoded" /\ key_size = 1
    /\ data = Run(9, Fill(126, 65)) \o Run(9, Fill(126, 66)) \o Run(9, <<67, 68>>)
    /\ dec.dict[1].kind = "list" /\ Len(dec.dict[1].vals) = 3
    /\ enc.bytes = Run(9, Fill(126, 65) \o Fill(126, 66) \o <<67, 68>>)
    /\ decode_data(enc.bytes, 1).dict
          = <<BytesEntry(9, Fill(126, 65) \o Fill(126, 66) \o <<67, 68>>)>>

\* what one entry costs when every list element is charged a length byte and a key
PerElementCharge(e, ks) ==
    IF e.kind = "list" THEN Len(e.vals) * (1 + ks) + SumLen(e.vals)
    ELSE 1 + ks + Len(e.vals[1])

\* what one entry costs when a key is charged one length byte and one key
PerKeyCharge(e, ks) ==
    1 + ks + (IF e.kind = "list" THEN SumLen(e.vals) ELSE Len(e.vals[1]))

RECURSIVE SumPerElement(_, _)
SumPerElement(d, ks) ==
    IF d = <<>> THEN 0 ELSE PerElementCharge(Head(d), ks) + SumPerElement(Tail(d), ks)

RECURSIVE SumPerKey(_, _)
SumPerKey(d, ks) ==
    IF d = <<>> THEN 0 ELSE PerKeyCharge(Head(d), ks) + SumPerKey(Tail(d), ks)

\* C22 (as stated): compute_length charges a list of k byte strings
\* k * (1 + key_width) plus its value bytes, and a scalar 1 + key_width plus its
\* value bytes
C22_ChargedPerElement ==
    cpc = "encoded" => clen = SumPerElement(dec.dict, key_size)

\* C22 (amended): compute_length charges every key 1 + key_width plus its value
\* bytes, a list of k byte strings like a scalar: once, plus the total of its
\* elements
C22_ChargedPerKey ==
    cpc = "encoded" => clen = SumPerKey(dec.dict, key_size)

\* C22 witness: compute_length of the list of three values (126, 126 and 2
\* bytes) decoded from three runs of type 0x09 is 1 + 1 + 254
C22_Witness ==
    /\ cpc = "encoded" /\ key_size = 1
    /\ Len(dec.dict) = 1 /\ dec.dict[1].kind = "list" /\ Len(dec.dict[1].vals) = 3
    /\ SumLen(dec.dict[1].vals) = 254
    /\ clen = 256


\* C23: when the constructor of a local Service has returned, every declared
\* Characteristic and ComplexCharacteristic has been added to the attribute
\* table exactly once, with or without an initial value among the keyword
\* arguments
C23_AllBoundByInit ==
    (the_service.state = "constructed" /\ ~the_service.remote
        /\ bind_op.op = "Service.__init__") =>
        \A n \in Declared(the_service.cls) : Count(the_service.adds, n) = 1


LazyTypes == {ADT_FLAGS, ADT_MANUFACTURER}
LazyBound(a, adt) == IF adt = ADT_FLAGS THEN a.flags_bound ELSE a.mfg_bound
LazyStored(a, adt) ==
    /\ HasKey(a.data_dict, adt)
    /\ a.data_dict[IndexOf(a.data_dict, adt)].kind = (IF adt = ADT_FLAGS THEN "flags" ELSE "mfg")

\* the value bytes of the field of type adt in bytes(a), read back by decode_data
EncodedField(a, adt) ==
    LET d == decode_data(encode_data(a.data_dict, 1).bytes, 1).dict
    IN  d[IndexOf(d, adt)].vals[1]

BitOf(f, bit) == (f \div (2 ^ bit)) % 2 = 1

\* C24: a read of flags or manufacturer_data that materializes constructs the
\* bound object and stores it in data_dict under the field's type; no second
\* object is ever constructed for that field and a later read returns the
\* stored one leaving the advertisement as it is; a flag or a colour assigned
\* through the object is what bytes(advertisement) then carries
C24_LazyObjectOnce ==
    [][ /\ \A adt \in LazyTypes :
             /\ Count(adv'.made, adt) <= 1
             /\ LazyBound(adv', adt) <=> Count(adv'.made, adt) = 1
             /\ LazyBound(adv', adt) => LazyStored(adv', adt)
             /\ (adv'.op = "LazyObjectField.__get__" /\ adv'.adt = adt
                    /\ adv'.raised = "none" /\ adv'.ret = <<"object">>) =>
                   /\ LazyBound(adv', adt)
                   /\ LazyBound(adv, adt) =>
                         adv'.made = adv.made /\ adv'.data_dict = adv.data_dict
        /\ \A bit \in FlagBits, v \in BOOLEAN :
             (/\ adv' = [Flag_assign(adv, bit, v) EXCEPT !.adt = 0]
              /\ adv'.raised = "none"
              /\ ~encode_data(adv'.data_dict, 1).raised) =>
                 /\ Len(EncodedField(adv', ADT_FLAGS)) = 1
                 /\ BitOf(EncodedField(adv', ADT_FLAGS)[1], bit) = v
        /\ \A v \in Colors :
             (/\ adv.cls = "AdafruitColor"
              /\ adv' = [ManufacturerDataField_set(adv, COLOR_DATA_ID, "<I", v) EXCEPT !.adt = 0]
              /\ adv'.raised = "none"
              /\ ~encode_data(adv'.data_dict, 1).raised) =>
                 LET value == EncodedField(adv', ADT_MANUFACTURER)
                     sub == decode_data(Slice(value, 2, Len(value)), 2).dict
                 IN  /\ Slice(value, 0, 2) = LEBytes(ADAFRUIT_COMPANY_ID, 2)
                     /\ HasKey(sub, COLOR_DATA_ID)
                     /\ sub[IndexOf(sub, COLOR_DATA_ID)].vals = <<LEBytes(v, 4)>>
      ]_vars

\* C24 witness: a received advertisement with flags 0x06 whose flags were read
\* (one object constructed and stored under type 0x01), le_only was cleared
\* through it, and a later read returned the same object: bytes carry 0x02
C24_Witness ==
    /\ ~adv.mutable /\ adv.made = <<ADT_FLAGS>> /\ adv.flags_bound
    /\ adv.op = "LazyObjectField.__get__" /\ adv.adt = ADT_FLAGS
    /\ adv.ret = <<"object">> /\ adv_steps = 3
    /\ LazyStored(adv, ADT_FLAGS)
    /\ ~AdvBytes.raised
    /\ EncodedField(adv, ADT_FLAGS) = <<2>>


\* one field [1 + len(value)][type][value]
Field(t, value) == <<1 + Len(value), t>> \o value

\* the number of fields of type t with the value v in the well-formed packet bs
FieldCount(bs, t, v) ==
    Cardinality({i \in 1 .. Len(RunTypes(bs)) : RunTypes(bs)[i] = t /\ RunValues(bs)[i] = v})

C26_ItemNeverRaises ==
    scanned.op = "item" =>
        /\ scanned.raised = "none"
        /\ WellFormedRuns(scanned.advertisement_bytes) =>
              LET values == ValuesOfType(scanned.advertisement_bytes, scanned.item_type)
              IN  scanned.ret = IF values = <<>> THEN <<"None">> ELSE <<"bytes", values[1]>>



\* the Service objects constructed on the connection for a uuid
ConstructedAt(c, uuid) ==
    {i \in 1 .. Len(c.constructed_services) : c.constructed_services[i].uuid = uuid}

\* C27: on one connection at most one Service object is constructed for a uuid,
\* every lookup that returns a Service returns that object, which stays the same
\* from one lookup to the next, and discover_remote_services is not called
\* again for a uuid after it has once returned the service
C27_OneServicePerUuid ==
    [][LET c == connection'
       IN  /\ \A uuid \in ServiceUuids : Cardinality(ConstructedAt(c, uuid)) <= 1
           /\ (c.op = "__getitem__" /\ c.raised = "none" /\ c.ret[1] = "Service") =>
                  /\ ConstructedAt(c, c.key.uuid) # {}
                  /\ \A i \in ConstructedAt(c, c.key.uuid) :
                         c.ret[2] = c.constructed_services[i].id
           /\ \A i \in 1 .. Len(connection.constructed_services) :
                  /\ i <= Len(c.constructed_services)
                  /\ c.constructed_services[i] = connection.constructed_services[i]
           /\ \A i, j \in 1 .. Len(c.asked) :
                  (i < j /\ c.asked[i].uuid = c.asked[j].uuid) => ~c.asked[i].found
      ]_vars

\* C27 witness: a membership test found the service, a lookup by its class
\* constructed the Service object and a second lookup returned the same object,
\* with one call of discover_remote_services in all
C27_Witness ==
    /\ connection.calls = 3 /\ connection.discoveries = 1
    /\ connection.op = "__getitem__" /\ connection.key.cls = "ServiceA"
    /\ connection.ret = <<"Service", 1>>
    /\ Len(connection.constructed_services) = 1
    /\ connection.asked = <<[uuid |-> 1, found |-> TRUE]>>



\* C28: an add_field that raises IndexError leaves the packet as it was before
\* the call, so the packet is never longer than max_length and bytes_remaining
\* is never negative
C28_RefusedFieldLeavesPacket ==
    packet.state = "live" =>
        /\ (packet.op = "add_field" /\ packet.raised = "IndexError") =>
               Len(packet.packet_bytes) = packet.length
        /\ Len(packet.packet_bytes) <= packet.max_length
        /\ bytes_remaining(packet) >= 0



\* the single service-data value of the advertisement a, <<>> when its
\* service-data entry is absent or a list
SingleServiceData(a) ==
    IF HasKey(a.data_dict, ADT_SERVICE_DATA_16)
           /\ a.data_dict[IndexOf(a.data_dict, ADT_SERVICE_DATA_16)].kind = "bytes"
    THEN a.data_dict[IndexOf(a.data_dict, ADT_SERVICE_DATA_16)].vals[1]
    ELSE <<>>

\* C29: reading a ServiceData field on a mutable Advertisement whose
\* service-data entry holds a single value of another service keeps that value
\* and adds an entry holding only this service's prefix next to it
C29_OtherServiceDataKept ==
    [][(/\ adv_steps' = adv_steps + 1
        /\ adv'.op = "ServiceData.__get__"
        /\ adv.mutable
        /\ SingleServiceData(adv) # <<>>
        /\ ~StartsWith(SingleServiceData(adv), adv'.prefix))
       => LET e == adv'.data_dict[IndexOf(adv'.data_dict, ADT_SERVICE_DATA_16)]
          IN  /\ e.kind = "list"
              /\ Len(e.vals) = 2
              /\ \E i, j \in 1 .. 2 :
                     i # j /\ e.vals[i] = SingleServiceData(adv) /\ e.vals[j] = adv'.prefix
              /\ adv'.ret = <<"view", <<>>>>
      ]_vars



\* C30: a property read of CurrentTimeClient reads a characteristic value only
\* while connected, after discovery has found both characteristics on the
\* current connection and pairing has succeeded on it
C30_ReadsOnlyAfterPairing ==
    time_client.read # NoChar =>
        /\ time_client.connected
        /\ time_client.current_time_char.conn = time_client.conn
        /\ time_client.local_time_char.conn = time_client.conn
        /\ time_client.paired

====
